---- MODULE Spec2Model ----
(***************************************************************************)
(* Model of the macro execution engine, src/Macro/executor.py.            *)
(*                                                                         *)
(* One MacroExecutor instance is modelled.  Its fields are the variables   *)
(* actions, loop_count and running (self._running).  run() is modelled     *)
(* statement by statement for each calling thread: pc[t] is the position   *)
(* of thread t inside run(), and the locals of run() are functions of the  *)
(* thread.  stop() is a single assignment and can be taken by any other    *)
(* thread between any two steps of run().  The three callbacks are         *)
(* modelled by the per-call event log log[t].                              *)
(*                                                                         *)
(* The window of src/Macro/ui.py, which makes a new executor and a new     *)
(* worker thread for every start, is modelled by the variables             *)
(* macro_running, executor, after_queue and ex_* and the specification     *)
(* SpecUI.                                                                 *)
(***************************************************************************)
EXTENDS Integers, Sequences, FiniteSets, TLC

VARIABLES
    actions,        \* self.actions           (executor.py:85)
    loop_arg,       \* the constructor's loop_count argument
    loop_count,     \* self.loop_count        (executor.py:86)
    running,        \* self._running          (executor.py:92)
    quota,          \* quota[t]: how many times thread t calls run() on this instance
    pc,             \* pc[t]: position of thread t in run()
    i,              \* countdown variable i of run()            (line 138)
    loop_index,     \* loop_index of run()                      (line 150)
    idx,            \* 1-based position of `action` in self.actions (line 156)
    action_count,   \* action_count of run()                    (line 148)
    total_actions,  \* total_actions of run()                   (line 147)
    completed_ok,   \* completed_ok of run()                    (line 134)
    remaining,      \* remaining of _sleep_with_checks, in ms   (line 193)
    exc,            \* the exception propagating out of a handler ("" = none)
    ret,            \* who called _sleep_with_checks: "act", "img" or "sub"
    sub_i,          \* 1-based position of `sub` in sub_actions      (line 521)
    image_found,    \* image_found of _execute_img_check             (line 458)
    top_left,       \* top_left of _execute_img_check, <<>> for None (line 460)
    score,          \* score of _execute_img_check, in percent       (line 459)
    tmpl,           \* (tmpl_w, tmpl_h) of _execute_img_check        (line 461)
    elapsed,        \* time.time() - start_time in ms, kept while a timeout is set
    center,         \* (center_x, center_y) of the match       (lines 495-496)
    clipboard,      \* the system clipboard, written through pyperclip.copy
    inputs,         \* history: the input-simulation calls of the current call
    log,            \* history: the callbacks invoked by the current call of run()
    calls,          \* history: number of run() calls of thread t that have returned
    dispatched,     \* history: top-level dispatch attempts of the current call
    stopIn,         \* history: phase of the current call in which a stop() first cleared the flag
    stopIdle,       \* history: stop() arrived while no run() was in progress
    dispAtStop,     \* history: dispatched[t] when that stop() arrived
    stopPt,         \* history: where t was, and how long log[t] and inputs[t] were, when it arrived
    preStop,        \* history: stopIdle as it was when the current call was made
    cancelSeen,     \* history: the current call saw the flag cleared at a check
    earlier,        \* history: the calls past line 133 when t called run(), not yet returned
    lifecycles,     \* history: number of calls that entered the countdown
    order,          \* history: the list positions dispatched by the current call, in order
    suborder,       \* history: the sub-action positions taken up by the current img_check
    want,           \* history: the seconds argument of the latest _sleep_with_checks call, in ms
    slept,          \* history: the time that call has spent in time.sleep, in ms
    lastDt,         \* history: dt of its latest time.sleep(dt), in ms
    stopAt,         \* history: slept[t] when the flag was cleared on that call, -1 if it was not
    late,           \* history: the time the current call of run() slept in time.sleep calls
                    \*          begun with the flag already cleared, in ms
    extracted,      \* history: text, mode and result of the latest process_ocr_text call
    ref_cache,      \* _REF_CACHE, NoBitmap standing for a missing key (image_ocr.py:22)
    disk,           \* the file behind each reference path
    used,           \* history: the paths match_template has been called with
    reads,          \* history: number of cv2.imread calls for each path
    decodes,        \* history: how many of them returned a bitmap
    matched,        \* history: path, file on disk and bitmap of the latest match_template call
    macro_running,  \* self.macro_running of the window       (ui.py:38)
    executor,       \* self.executor of the window, NoExecutor for None (ui.py:36)
    after_queue,    \* the callbacks handed to master.after(0, ...) and not yet run
    ex_pc,          \* ex_pc[e]: position of the worker thread of executor e in run()
    ex_running,     \* ex_running[e]: self._running of executor e
    ex_i,           \* ex_i[e]: countdown variable i of its run()
    ex_count,       \* ex_count[e]: action_count of its run()
    ex_ok           \* ex_ok[e]: completed_ok of its run()

sleepHist == <<want, slept, lastDt, stopAt>>

cacheHist == <<used, reads, decodes, matched>>

cacheVars == <<ref_cache, disk, cacheHist>>

handlerVars == <<ret, sub_i, image_found, top_left, score, tmpl, elapsed, center, clipboard, inputs,
                 suborder, sleepHist, extracted>>

(* The state of the executor and its callers *)
execVars == <<actions, loop_arg, loop_count, running, quota, order, late, pc, i, loop_index, idx,
              action_count, total_actions, completed_ok, remaining, exc, handlerVars, log, calls,
              dispatched, stopIn, dispAtStop, stopPt, stopIdle, preStop, cancelSeen, earlier, lifecycles>>

(* The state of the window and of the executors it has started *)
uiVars == <<macro_running, executor, after_queue, ex_pc, ex_running, ex_i, ex_count, ex_ok>>

vars == <<execVars, cacheVars, uiVars>>

progVars == <<actions, loop_count, running, pc, i, loop_index, idx, action_count,
              total_actions, completed_ok, remaining, exc, handlerVars, log>>

----------------------------------------------------------------------------
(* Bounds of the model *)

MaxLen == 2        \* longest action list
MaxLoop == 2       \* largest loop_count argument
MaxCalls == 2      \* run() calls per thread
MaxReads == 2      \* cv2.imread calls per path

(* Program constants *)

CountdownFrom == 3     \* range(3, 0, -1)
SleepStepMs == 50      \* step = 0.05
MinPollMs == 10        \* max(0.01, interval)
NumPresets == 4        \* configs = ["--psm 6", "--psm 7", "--psm 8", "--psm 13"]
CountdownPauseMs == 1000   \* time.sleep(1.0)

Threads == {1, 2}

MaxStarts == 2     \* executors the window creates

(* The MacroExecutor objects start_macro creates, in the order of creation *)
Executors == 1..MaxStarts

NoExecutor == 0    \* self.executor = None

----------------------------------------------------------------------------
(* Actions.  An action tuple is abstracted to a record: its tag (typ),     *)
(* whether its field shape is malformed so that unpacking it raises (bad), *)
(* and the fields its handler reads.  Times are in ms, scores in percent.  *)

Min(a, b) == IF a < b THEN a ELSE b
Max(a, b) == IF a > b THEN a ELSE b
Abs(a) == IF a < 0 THEN -a ELSE a

(* click, drag, copy, paste, delay (arg: the duration), hotkey (arg: the
   number of keys), key (arg: 1/0 for a name inside/outside KEYBOARD_KEYS),
   paste_list (arg: the number of items) *)
Act(typ, bad, arg) == [typ |-> typ, bad |-> bad, arg |-> arg]

(* ('ocr', coords, mode, pattern, processing); short: the legacy 2-tuple *)
Ocr(short, bad, mode, pattern, processing) ==
    [typ |-> "ocr", short |-> short, bad |-> bad, mode |-> mode,
     pattern |-> pattern, processing |-> processing]

(* The file behind a reference path: whether os.path.exists finds it,
   whether cv2.imread can decode it, and the size of the picture *)
Image(exists, readable, w, h) == [exists |-> exists, readable |-> readable, w |-> w, h |-> h]

(* cfg of an img_check: a bare threshold or a dict holding some of the keys *)
BareCfg(t) == [dict |-> FALSE, keys |-> {}, threshold |-> t, wait |-> FALSE, interval |-> 0, timeout |-> 0]
DictCfg(keys, t, w, iv, to) ==
    [dict |-> TRUE, keys |-> keys, threshold |-> t, wait |-> w, interval |-> iv, timeout |-> to]

(* ('img_check', image_path, coords, sub_actions, cfg); short: fewer than 5
   fields; bad: coords does not unpack to four values *)
Img(short, bad, image, coords, subs, cfg) ==
    [typ |-> "img_check", short |-> short, bad |-> bad, image |-> image,
     coords |-> coords, subs |-> subs, cfg |-> cfg]

Click == Act("click", FALSE, 0)
BadClick == Act("click", TRUE, 0)
Delay70 == Act("delay", FALSE, 70)

CoreKinds == { Click, BadClick, Delay70 }

SmallImage == Image(TRUE, TRUE, 5, 2)
BigImage == Image(TRUE, TRUE, 20, 2)
CorruptImage == Image(TRUE, FALSE, 0, 0)
NoImage == Image(FALSE, FALSE, 0, 0)

(* The reference paths and the files behind them at the start *)
Paths == {"small.png", "big.png", "corrupt.png", "missing.png"}

InitialDisk ==
    [p \in Paths |-> CASE p = "small.png" -> SmallImage
                       [] p = "big.png" -> BigImage
                       [] p = "corrupt.png" -> CorruptImage
                       [] OTHER -> NoImage]
AllKeys == {"threshold", "wait", "interval", "timeout"}
SubActions == << Act("click_found", FALSE, 0), BadClick, Delay70, Act("img_check", FALSE, 0) >>
RaisingSubs == << Act("click_found", TRUE, 0), Act("drag", TRUE, 0), Act("delay", TRUE, 0),
                 Act("copy", TRUE, 0), Act("paste", TRUE, 0), Click >>

ImgKinds ==
    { Img(TRUE, FALSE, "small.png", <<0, 0, 10, 10>>, <<>>, BareCfg(80)),
      Img(FALSE, TRUE, "small.png", <<>>, <<>>, BareCfg(80)),
      Img(FALSE, FALSE, "missing.png", <<0, 0, 10, 10>>, <<Click>>, BareCfg(80)),
      Img(FALSE, FALSE, "big.png", <<0, 0, 10, 10>>, <<Click>>,
          DictCfg(AllKeys, 80, TRUE, 50, 0)),
      Img(FALSE, FALSE, "small.png", <<30, 5, 10, 25>>, SubActions, BareCfg(80)),
      Img(FALSE, FALSE, "small.png", <<-10, 0, -30, 10>>, <<Click>>, DictCfg({"wait"}, 0, TRUE, 0, 0)),
      Img(FALSE, FALSE, "small.png", <<0, 0, 10, 10>>, <<Delay70>>,
          DictCfg(AllKeys, 80, TRUE, 0, 100)),
      Img(FALSE, FALSE, "small.png", <<0, 0, 10, 10>>, <<Click>>,
          DictCfg(AllKeys, 80, TRUE, 200, 100)),
      Img(FALSE, FALSE, "small.png", <<0, 0, 10, 10>>, <<Click>>,
          DictCfg({"threshold"}, 90, FALSE, 0, 0)),
      Img(FALSE, FALSE, "corrupt.png", <<0, 0, 10, 10>>, <<Click>>,
          DictCfg({"wait"}, 0, TRUE, 0, 0)),
      Img(FALSE, FALSE, "small.png", <<0, 0, 10, 10>>, RaisingSubs, BareCfg(80)),
      Img(FALSE, FALSE, "small.png", <<0, 0, 10, 10>>, <<>>,
          DictCfg(AllKeys, 80, TRUE, -20, 30)) }

OcrKinds ==
    { Ocr(FALSE, TRUE, "numbers", "", "copy"),
      Ocr(FALSE, FALSE, "numbers", "", "all"),
      Ocr(TRUE, FALSE, "", "", ""),
      Ocr(FALSE, FALSE, "all_text", "", "show"),
      Ocr(FALSE, FALSE, "numbers", "", "first"),
      Ocr(FALSE, FALSE, "numbers", "", "preview"),
      Ocr(FALSE, FALSE, "custom", "\\d+", "copy") }

ExtraKinds ==
    { Act("drag", TRUE, 0), Act("drag", FALSE, 0), Act("hotkey", TRUE, 2),
      Act("hotkey", FALSE, 0), Act("key", TRUE, 1), Act("key", FALSE, 0),
      Act("key", FALSE, 1), Act("copy", FALSE, 0), Act("paste", FALSE, 0),
      Act("delay", TRUE, 0), Act("delay", FALSE, -20), Act("wait_key", FALSE, 0),
      Act("paste_list", FALSE, 1), Act("paste_list", FALSE, 3),
      Act("click_found", FALSE, 0), Act("scroll", FALSE, 0) }
    \cup ImgKinds \cup OcrKinds

RECURSIVE SeqsUpTo(_, _)
SeqsUpTo(S, n) ==
    IF n = 0 THEN { <<>> }
    ELSE LET shorter == SeqsUpTo(S, n - 1)
         IN  shorter \cup { Append(s, x) : s \in { q \in shorter : Len(q) = n - 1 }, x \in S }

(* Every list of up to MaxLen of the core actions, and every other action
   alone and followed by a click *)
ActionLists ==
    SeqsUpTo(CoreKinds, MaxLen)
        \cup { <<a>> : a \in ExtraKinds } \cup { <<a, Click>> : a \in ExtraKinds }

(* The lists of the two-caller specification: one action *)
ConcActionLists == { <<a>> : a \in CoreKinds }

LoopArgs == 0 .. MaxLoop

(* ui.py, _get_paste_list_lengths: the item counts of the paste_list actions *)
PasteListLengths(acts) == { acts[k].arg : k \in { j \in 1 .. Len(acts) : acts[j].typ = "paste_list" } }

(* ui.py, _effective_loop_count *)
EffectiveLoopCount(acts, n) ==
    IF PasteListLengths(acts) = {} THEN n
    ELSE CHOOSE m \in PasteListLengths(acts) : \A l \in PasteListLengths(acts) : m <= l

(* ui.py, start_macro: MacroExecutor(actions=self.actions,
   loop_count=self.loop_count, ...), the loop_arg of the model *)
StartMacroLoopCount(acts, n) == n

(* self.loop_count = max(1, int(loop_count)) *)
CoerceLoopCount(n) == IF n < 1 THEN 1 ELSE n

----------------------------------------------------------------------------
(* Callback events *)

Ev(k, m, n, e) == [k |-> k, m |-> m, n |-> n, e |-> e]
Status(m, n) == Ev("status", m, n, "")
Fatal(k, e) == Ev(k, "Fatal error during macro execution", 0, e)
Done(ok) == Ev("done", IF ok THEN "true" ELSE "false", 0, "")

----------------------------------------------------------------------------
(* Per-action handlers (_execute_action and the _execute_* methods).       *)
(* HandlerOutcome is what the handler of action a does when it is entered: *)
(*   "raise"  - a RuntimeError leaves the handler,                         *)
(*   "sleep"  - the handler enters _sleep_with_checks,                     *)
(*   "status" - the handler only reports "Unknown action type",            *)
(*   "return" - the handler returns normally.                              *)

SimpleTags == {"click", "drag", "delay", "copy", "paste", "hotkey", "key"}
HandledTags == SimpleTags \cup {"ocr", "img_check"}

(* Mutant: a key name outside the vocabulary raises out of the handler *)
KeyOutcomeMut(a) == IF a.bad \/ a.arg = 0 THEN "raise" ELSE "return"

(* _execute_key, lines 302-317: unpacking a malformed action raises; the
   ValueError for an unsupported key name is caught and printed *)
KeyOutcome(a) == IF a.bad THEN "raise" ELSE "return"

(* Mutant: a tag without a branch is an error *)
HandlerOutcomeMut(a) ==
    CASE a.typ = "click"  -> IF a.bad THEN "raise" ELSE "return"
      [] a.typ = "drag"   -> IF a.bad THEN "raise" ELSE "return"
      [] a.typ = "delay"  -> "sleep"
      [] a.typ = "copy"   -> "return"
      [] a.typ = "paste"  -> "return"
      [] a.typ = "hotkey" -> IF a.arg = 0 THEN "return" ELSE IF a.bad THEN "raise" ELSE "return"
      [] a.typ = "key"    -> KeyOutcome(a)
      [] OTHER            -> "raise"

HandlerOutcome(a) ==
    CASE a.typ = "click"  -> IF a.bad THEN "raise" ELSE "return"
      [] a.typ = "drag"   -> IF a.bad THEN "raise" ELSE "return"
      [] a.typ = "delay"  -> "sleep"
      [] a.typ = "copy"   -> "return"
      [] a.typ = "paste"  -> "return"
      [] a.typ = "hotkey" -> IF a.arg = 0 THEN "return" ELSE IF a.bad THEN "raise" ELSE "return"
      [] a.typ = "key"    -> KeyOutcome(a)
      [] OTHER            -> "status"

(* A call into the input-simulation library; at: the screen point of a
   click on the found image, <<>> otherwise *)
Call(name, at) == [name |-> name, at |-> at]

(* The input-simulation calls a handler that returns normally has made *)
HandlerInputs(a) ==
    CASE a.typ = "click"  -> <<Call("click", <<>>)>>
      [] a.typ = "drag"   -> <<Call("mouseDown", <<>>), Call("moveTo", <<>>), Call("mouseUp", <<>>)>>
      [] a.typ = "copy"   -> <<Call("hotkey ctrl+c", <<>>)>>
      [] a.typ = "paste"  -> <<Call("hotkey ctrl+v", <<>>)>>
      [] a.typ = "hotkey" -> IF a.arg = 0 THEN <<>> ELSE <<Call("hotkey", <<>>)>>
      [] a.typ = "key"    -> IF a.arg = 1 THEN <<Call("press", <<>>)>> ELSE <<>>
      [] OTHER            -> <<>>

(* delay_time = float(action[1]), 0.0 when that fails, lines 286-289 *)
DelayTime(a) == IF a.bad THEN 0 ELSE a.arg

(* remaining = max(0.0, float(seconds)), line 193 *)
SleepFor(seconds) == Max(0, seconds)

(* Mutant: the whole time is slept in one piece *)
SleepDtMut(rem) == rem

(* Mutant: the sleep loop does not look at the flag *)
SleepGoesOnMut(rem, flag) == rem > 0

(* `while remaining > 0 and self._running`, line 195 *)
SleepGoesOn(rem, flag) == rem > 0 /\ flag

(* The time a time.sleep(dt) begun with the flag at `flag` spends without
   the flag being looked at although it is cleared *)
Unheard(dt, flag) == IF flag THEN 0 ELSE dt

(* dt = min(step, remaining), line 196 *)
SleepDt(rem) == Min(SleepStepMs, rem)

(* delay_time = float(action[1]), 0.0 when that fails; then
   remaining = max(0.0, float(seconds)) *)
DelayRemaining(a) == SleepFor(DelayTime(a))

(* Mutant: the countdown never looks at the flag *)
CountdownCancelledMut(flag) == FALSE

(* `if not self._running` at the start of a countdown tick, line 139 *)
CountdownCancelled(flag) == ~flag

(* `if not self._running: break` of the outer loop, line 151 *)
OuterCancelled(flag) == ~flag

(* Mutant: the inner loop never looks at the flag *)
InnerCancelledMut(flag) == FALSE

(* `if not self._running: break` of the inner loop, line 157 *)
InnerCancelled(flag) == ~flag

(* Mutant: the total forgets the loop count *)
TotalActionsMut(acts, n) == Len(acts)

(* total_actions = len(self.actions) * self.loop_count *)
TotalActions(acts, n) == Len(acts) * n

(* Mutant: run() does not set the flag *)
FlagAtStartMut(flag) == flag

(* self._running = True, line 133 *)
FlagAtStart(flag) == TRUE

(* Mutant: the finally block does not clear the flag *)
FlagAfterRunMut(flag) == flag

(* self._running = False in the finally block, line 177 *)
FlagAfterRun(flag) == FALSE

(* Mutant: the exception is handled per action and the loop goes on *)
AfterExceptMut == "act_head"

(* Where control goes after the except block: on to the finally block,
   never back into the loops *)
AfterExcept == "finally"

(* Mutant: the empty-list check is missing *)
NoActionsMut(acts) == FALSE

(* `if not self.actions` *)
NoActions(acts) == acts = <<>>

(* `if self._running` at line 127 *)
AlreadyRunning(flag) == flag

(* Mutant: the completion is never recorded *)
StillRunningNever(flag) == FALSE

(* Mutant: the completion check does not look at the flag *)
StillRunningMut(flag) == TRUE

(* `if self._running` after the loops, line 164 *)
StillRunning(flag) == flag

----------------------------------------------------------------------------
(* Text post-processing (image_ocr.process_ocr_text).  A text is a         *)
(* sequence of one-character strings; an extraction result is None, a      *)
(* string or a list of strings.                                            *)

Digits == {"0", "1", "2", "3", "4", "5", "6", "7", "8", "9"}
Letters ==
    {"a", "b", "c", "d", "e", "f", "g", "h", "i", "j", "k", "l", "m", "n", "o", "p", "q",
     "r", "s", "t", "u", "v", "w", "x", "y", "z", "A", "B", "C", "D", "E", "F", "G", "H",
     "I", "J", "K", "L", "M", "N", "O", "P", "Q", "R", "S", "T", "U", "V", "W", "X", "Y", "Z"}
Blanks == {" ", "\t", "\n"}
IsDigit(c) == c \in Digits
IsWord(c) == c \in Digits \cup Letters \cup {"_"}

NoResult == [kind |-> "none", v |-> <<>>]
StrResult(v) == [kind |-> "str", v |-> v]
ListResult(v) == [kind |-> "list", v |-> v]

(* str.strip() *)
RECURSIVE LStrip(_)
LStrip(t) == IF t # <<>> /\ Head(t) \in Blanks THEN LStrip(Tail(t)) ELSE t
RECURSIVE RStrip(_)
RStrip(t) == IF t # <<>> /\ t[Len(t)] \in Blanks THEN RStrip(SubSeq(t, 1, Len(t) - 1)) ELSE t
Strip(t) == RStrip(LStrip(t))

(* re.findall(r"\d+", text): the maximal digit runs, in text order *)
RECURSIVE DigitRunsFrom(_, _, _, _)
DigitRunsFrom(t, k, cur, acc) ==
    LET closed == IF cur = <<>> THEN acc ELSE Append(acc, cur)
    IN  IF k > Len(t) THEN closed
        ELSE IF IsDigit(t[k]) THEN DigitRunsFrom(t, k + 1, Append(cur, t[k]), acc)
        ELSE DigitRunsFrom(t, k + 1, <<>>, closed)
DigitRuns(t) == DigitRunsFrom(t, 1, <<>>, <<>>)

(* re.search(r"\b(\d{n})\b", text): the first run of exactly n digits with a
   word boundary on both sides; <<>> when there is none *)
StandaloneAt(t, n, p) ==
    /\ p + n - 1 <= Len(t)
    /\ \A k \in p .. p + n - 1 : IsDigit(t[k])
    /\ p = 1 \/ ~IsWord(t[p - 1])
    /\ p + n - 1 = Len(t) \/ ~IsWord(t[p + n])
FirstStandalone(t, n) ==
    LET hits == { p \in 1 .. Len(t) : StandaloneAt(t, n, p) }
    IN  IF hits = {} THEN <<>>
        ELSE LET p == CHOOSE q \in hits : \A r \in hits : q <= r
             IN  SubSeq(t, p, p + n - 1)

(* Mutant: the tiers are tried shortest first *)
LegacyExtractMut(t) ==
    LET m9 == FirstStandalone(t, 9)
        m8 == FirstStandalone(t, 8)
        m7 == FirstStandalone(t, 7)
        m6 == FirstStandalone(t, 6)
    IN  IF m6 # <<>> THEN StrResult(<<"0", "0", "0">> \o m6)
        ELSE IF m7 # <<>> THEN StrResult(<<"0", "0">> \o m7)
        ELSE IF m8 # <<>> THEN StrResult(<<"0">> \o m8)
        ELSE IF m9 # <<>> THEN StrResult(m9)
        ELSE NoResult

(* The legacy mode, lines 173-194 *)
LegacyExtract(t) ==
    LET m9 == FirstStandalone(t, 9)
        m8 == FirstStandalone(t, 8)
        m7 == FirstStandalone(t, 7)
        m6 == FirstStandalone(t, 6)
    IN  IF m9 # <<>> THEN StrResult(m9)
        ELSE IF m8 # <<>> THEN StrResult(<<"0">> \o m8)
        ELSE IF m7 # <<>> THEN StrResult(<<"0", "0">> \o m7)
        ELSE IF m6 # <<>> THEN StrResult(<<"0", "0", "0">> \o m6)
        ELSE NoResult

(* The custom mode for the patterns the model draws: "" (no pattern), "("
   (re.error, swallowed) and "\d+" *)
CustomExtract(t, pattern) ==
    CASE pattern = "" -> NoResult
      [] pattern = "(" -> NoResult
      [] pattern = "\\d+" -> IF DigitRuns(t) = <<>> THEN NoResult ELSE ListResult(DigitRuns(t))

(* process_ocr_text(text, mode, pattern).  The email mode is not modelled:
   no action of the model uses it. *)
ProcessOcrText(t, mode, pattern) ==
    IF t = <<>> THEN NoResult
    ELSE CASE mode = "all_text" -> StrResult(Strip(t))
           [] mode = "numbers" -> IF DigitRuns(t) = <<>> THEN NoResult ELSE ListResult(DigitRuns(t))
           [] mode = "custom" -> CustomExtract(t, pattern)
           [] mode = "legacy" -> LegacyExtract(t)
           [] mode \notin {"all_text", "numbers", "email", "custom", "legacy"} -> NoResult

(* One call process_ocr_text(text, mode, pattern) and what it returned *)
Extraction(text, mode, result) == [text |-> text, mode |-> mode, result |-> result]
NoExtraction == Extraction(<<>>, "", NoResult)

(* `if not result` *)
Falsy(r) == r.kind = "none" \/ r.v = <<>>

(* " ".join(str(r) for r in result) *)
RECURSIVE JoinWithSpace(_)
JoinWithSpace(l) ==
    IF l = <<>> THEN <<>>
    ELSE IF Len(l) = 1 THEN l[1]
    ELSE l[1] \o <<" ">> \o JoinWithSpace(Tail(l))

----------------------------------------------------------------------------
(* Text recognition as _execute_ocr drives it, lines 350-365.  What the    *)
(* recogniser answers is the environment's: for each preset and for the    *)
(* final default pass, an error or a raw text.                             *)

Answer(err, text) == [err |-> err, text |-> text]
OcrEnv(presets, fallback) == [presets |-> presets, fallback |-> fallback]

SampleText == <<"a", "1", " ", "2", "2", "\n">>
NoText == Answer(FALSE, <<" ">>)
Broken == Answer(TRUE, <<>>)

(* Digit runs of 5 to 10 digits and the texts built from them *)
D5 == <<"1", "2", "3", "4", "5">>
D6 == <<"6", "5", "4", "3", "2", "1">>
D7 == <<"7", "7", "1", "2", "3", "4", "5">>
D8 == <<"1", "2", "3", "4", "5", "6", "7", "8">>
D9 == <<"9", "8", "7", "6", "5", "4", "3", "2", "1">>
D10 == <<"1", "2", "3", "4", "5", "6", "7", "8", "9", "0">>
Sp == <<" ">>

IdText == <<"I", "D", ":", " ">> \o D8 \o <<" ", "r", "e", "f">>

IdTexts ==
    { IdText,
      D5, D6, D10,
      D6 \o Sp \o D9,
      D7 \o Sp \o <<"7", "6", "5", "4", "3", "2", "1">>,
      <<"a">> \o D9,
      D9 \o <<"_">> \o D6 \o <<".">>,
      D8 \o Sp \o D10 \o Sp \o D6,
      <<"x", " ">> \o D10 \o <<",">> \o D6 \o <<"-">> \o D7,
      D9 \o Sp \o <<"1", "1", "1", "1", "1", "1", "1", "1", "1">> }

OcrEnvs ==
    { OcrEnv(<<NoText, Broken, Answer(FALSE, SampleText), Broken>>, Broken),
      OcrEnv(<<NoText, NoText, Broken, NoText>>, Answer(FALSE, <<"x">>)),
      OcrEnv(<<NoText, NoText, NoText, NoText>>, NoText),
      OcrEnv(<<Broken, Broken, Broken, Broken>>, Broken) }
        \cup { OcrEnv(<<Answer(FALSE, x), Broken, Broken, Broken>>, Broken) : x \in IdTexts }

(* The for loop over configs: the first preset that yields non-empty text *)
RECURSIVE TryPresets(_, _)
TryPresets(presets, k) ==
    IF k > NumPresets THEN <<>>
    ELSE IF presets[k].err THEN TryPresets(presets, k + 1)
    ELSE IF Strip(presets[k].text) # <<>> THEN Strip(presets[k].text)
    ELSE TryPresets(presets, k + 1)

Recognize(env) ==
    LET t == TryPresets(env.presets, 1)
    IN  IF t # <<>> THEN [raised |-> FALSE, text |-> t]
        ELSE IF env.fallback.err THEN [raised |-> TRUE, text |-> <<>>]
        ELSE [raised |-> FALSE, text |-> Strip(env.fallback.text)]

(* The fields of an ocr action, lines 327-336 *)
OcrMode(a) == IF a.short THEN "legacy" ELSE a.mode
OcrPattern(a) == IF a.short THEN "" ELSE a.pattern
OcrProcessing(a) == IF a.short THEN "copy" ELSE a.processing

(* What lines 374-400 write to the clipboard for a non-empty result; <<>>
   stands for no write *)
(* Mutant: every processing value writes *)
OcrWritesMut(processing) == TRUE

OcrWrites(processing) == processing \in {"copy", "first", "all"}
OcrClipboard(r, processing) ==
    IF processing \in {"copy", "first"}
    THEN (IF r.kind = "list" THEN r.v[1] ELSE r.v)
    ELSE (IF r.kind = "list" THEN JoinWithSpace(r.v) ELSE r.v)
OcrStatus(r, processing) ==
    CASE processing \in {"copy", "first"} -> Status("OCR: Copied", 0)
      [] processing = "all" ->
            IF r.kind = "list" THEN Status("OCR: Copied matches", Len(r.v))
            ELSE Status("OCR: Copied", 0)
      [] processing = "show" -> Status("OCR Result", 0)
      [] OTHER -> Status("OCR (mode=processing)", 0)

----------------------------------------------------------------------------
(* Image check (_execute_img_check) and image_ocr.match_template *)

DefaultThreshold == 80     \* cfg.get("threshold", 0.8)
DefaultIntervalMs == 500   \* cfg.get("interval", 0.5)
DefaultTimeoutMs == 0      \* cfg.get("timeout", 0.0)

(* The effective configuration, lines 437-449 *)
ImgConfig(cfg) ==
    IF cfg.dict
    THEN [threshold |-> IF "threshold" \in cfg.keys THEN cfg.threshold ELSE DefaultThreshold,
          wait |-> IF "wait" \in cfg.keys THEN cfg.wait ELSE FALSE,
          interval |-> IF "interval" \in cfg.keys THEN cfg.interval ELSE DefaultIntervalMs,
          timeout |-> IF "timeout" \in cfg.keys THEN cfg.timeout ELSE DefaultTimeoutMs]
    ELSE [threshold |-> cfg.threshold, wait |-> FALSE,
          interval |-> DefaultIntervalMs, timeout |-> DefaultTimeoutMs]

(* ui.py, _edit_img_check_action, lines 974-983: the fields the editor
   shows for the same cfg *)
EditorConfig(cfg) ==
    IF cfg.dict
    THEN [threshold |-> IF "threshold" \in cfg.keys THEN cfg.threshold ELSE DefaultThreshold,
          wait |-> IF "wait" \in cfg.keys THEN cfg.wait ELSE TRUE,
          interval |-> IF "interval" \in cfg.keys THEN cfg.interval ELSE DefaultIntervalMs,
          timeout |-> IF "timeout" \in cfg.keys THEN cfg.timeout ELSE DefaultTimeoutMs]
    ELSE [threshold |-> cfg.threshold, wait |-> FALSE,
          interval |-> DefaultIntervalMs, timeout |-> DefaultTimeoutMs]

(* left, top = min(x1, x2), min(y1, y2); width, height = abs(x2 - x1), abs(y2 - y1) *)
Region(c) ==
    [left |-> Min(c[1], c[3]), top |-> Min(c[2], c[4]),
     width |-> Abs(c[3] - c[1]), height |-> Abs(c[4] - c[2])]

(* What one capture shows, chosen by the environment: the best correlation
   score, where it lies, how long capture and matching took, and whether the
   matching itself failed *)
Capture(sc, loc, ms, fails) == [score |-> sc, loc |-> loc, ms |-> ms, fails |-> fails]
Captures == { Capture(50, <<1, 2>>, 0, FALSE), Capture(50, <<1, 2>>, 30, FALSE),
              Capture(90, <<1, 2>>, 30, FALSE), Capture(50, <<1, 2>>, 30, TRUE) }

Match(ok, sc, loc, w, h) == [ok |-> ok, score |-> sc, top_left |-> loc, w |-> w, h |-> h]

(* A decoded grayscale picture; NoBitmap is None *)
Bitmap(w, h) == [w |-> w, h |-> h]
NoBitmap == Bitmap(0, 0)

(* cv2.imread(reference_path, cv2.IMREAD_GRAYSCALE), line 71: None for a
   file that is missing or cannot be decoded *)
Imread(p) ==
    IF disk[p].exists /\ disk[p].readable THEN Bitmap(disk[p].w, disk[p].h) ELSE NoBitmap

(* ref_gray after lines 69-71 *)
RefGray(p) == IF ref_cache[p] # NoBitmap THEN ref_cache[p] ELSE Imread(p)

(* Mutant: the decoded picture is not stored *)
CacheAfterMut(p) == ref_cache

(* _REF_CACHE after lines 69-75: a picture just decoded is stored, a failed
   read stores nothing *)
CacheAfter(p) == [ref_cache EXCEPT ![p] = RefGray(p)]

(* match_template(reference_path, screenshot_region), lines 69-95, the
   screenshot being of the size of the region *)
MatchTemplate(p, region, cap) ==
    LET ref == RefGray(p)
    IN  IF ref = NoBitmap THEN Match(FALSE, 0, <<>>, 0, 0)
        ELSE IF ref.h > region.height \/ ref.w > region.width
             THEN Match(FALSE, 0, <<>>, ref.w, ref.h)
        ELSE IF cap.fails THEN Match(FALSE, 0, <<>>, 0, 0)
        ELSE Match(TRUE, cap.score, cap.loc, ref.w, ref.h)

LastMatch(p, file, ref) == [path |-> p, file |-> file, ref |-> ref]

(* What a call of match_template(p, _) does to the cache, lines 69-75 *)
UseCache(p) ==
    /\ ref_cache' = CacheAfter(p)
    /\ used' = used \cup {p}
    /\ reads' = [reads EXCEPT ![p] = IF ref_cache[p] = NoBitmap THEN @ + 1 ELSE @]
    /\ decodes' = [decodes EXCEPT ![p] =
                       IF ref_cache[p] = NoBitmap /\ Imread(p) # NoBitmap THEN @ + 1 ELSE @]
    /\ matched' = LastMatch(p, disk[p], RefGray(p))

(* Mutant: the threshold is not looked at *)
MatchedMut(m, threshold) == m.ok

(* `ok and score >= threshold` *)
Matched(m, threshold) == m.ok /\ m.score >= threshold

(* int(x) of the half-integer x = twice / 2: truncation towards zero *)
IntOfHalves(twice) == IF twice >= 0 THEN twice \div 2 ELSE -((-twice) \div 2)

(* center_x = int(left + top_left[0] + tmpl_w / 2), and center_y alike *)
Center(region, m) ==
    << IntOfHalves(2 * (region.left + m.top_left[1]) + m.w),
       IntOfHalves(2 * (region.top + m.top_left[2]) + m.h) >>

(* Mutant: the wait loop never gives up *)
TimedOutMut(now, timeout) == FALSE

(* `timeout > 0.0 and (time.time() - start_time) >= timeout`, line 475 *)
TimedOut(now, timeout) == timeout > 0 /\ now >= timeout

(* Mutant: a capture that cannot be compared does not end the wait *)
GivesUpMut(m, now, timeout) == TimedOut(now, timeout)

(* The two unsuccessful breaks of the wait loop, lines 472-476 *)
GivesUp(m, now, timeout) == ~m.ok \/ TimedOut(now, timeout)

(* Mutant: the interval is taken as it is *)
PollSleepMut(interval) == interval

(* self._sleep_with_checks(max(0.01, interval)) *)
PollSleep(interval) == Max(MinPollMs, interval)

(* What a sub-action does, lines 527-559: "input" (one of the supported
   tags, well formed, the library call succeeding), "caught" (its exception -
   from unpacking, from float() or from the library - is caught and printed),
   "sleep" (a delay), "status" (unknown sub-action type) *)
SubTags == {"click", "drag", "delay", "copy", "paste", "click_found"}
(* Mutant: a sub-action that fails makes its input all the same *)
SubOutcomeMut(sub) ==
    CASE sub.typ \in {"click", "drag", "copy", "paste", "click_found"} -> "input"
      [] sub.typ = "delay" -> IF sub.bad THEN "caught" ELSE "sleep"
      [] OTHER -> "status"

SubOutcome(sub) ==
    CASE sub.typ \in {"click", "drag"} -> IF sub.bad THEN "caught" ELSE "input"
      [] sub.typ = "delay" -> IF sub.bad THEN "caught" ELSE "sleep"
      [] sub.typ \in {"copy", "paste", "click_found"} -> IF sub.bad THEN "caught" ELSE "input"
      [] OTHER -> "status"

(* The input-simulation calls of a well-formed sub-action, lines 530-553 *)
SubInputs(sub, found) ==
    IF sub.typ = "click_found" THEN <<Call("click", found)>> ELSE HandlerInputs(sub)

----------------------------------------------------------------------------
(* Where a stop() found a thread *)
StopPoint(at, from, nlog, ninputs) == [pc |-> at, ret |-> from, log |-> nlog, inputs |-> ninputs]
NoStopPoint == StopPoint("", "", 0, 0)

Init0 ==
    /\ loop_count = CoerceLoopCount(StartMacroLoopCount(actions, loop_arg))
    /\ running = FALSE
    /\ pc = [t \in Threads |-> "idle"]
    /\ i = [t \in Threads |-> 0]
    /\ loop_index = [t \in Threads |-> 0]
    /\ idx = [t \in Threads |-> 0]
    /\ action_count = [t \in Threads |-> 0]
    /\ total_actions = [t \in Threads |-> 0]
    /\ completed_ok = [t \in Threads |-> FALSE]
    /\ remaining = [t \in Threads |-> 0]
    /\ exc = [t \in Threads |-> ""]
    /\ ret = [t \in Threads |-> "act"]
    /\ sub_i = [t \in Threads |-> 0]
    /\ image_found = [t \in Threads |-> FALSE]
    /\ top_left = [t \in Threads |-> <<>>]
    /\ score = [t \in Threads |-> 0]
    /\ tmpl = [t \in Threads |-> <<0, 0>>]
    /\ elapsed = [t \in Threads |-> 0]
    /\ center = [t \in Threads |-> <<>>]
    /\ clipboard = <<>>
    /\ inputs = [t \in Threads |-> <<>>]
    /\ log = [t \in Threads |-> <<>>]
    /\ calls = [t \in Threads |-> 0]
    /\ dispatched = [t \in Threads |-> 0]
    /\ stopIn = [t \in Threads |-> "none"]
    /\ dispAtStop = [t \in Threads |-> 0]
    /\ stopPt = [t \in Threads |-> NoStopPoint]
    /\ stopIdle = FALSE
    /\ preStop = [t \in Threads |-> FALSE]
    /\ cancelSeen = [t \in Threads |-> FALSE]
    /\ earlier = [t \in Threads |-> {}]
    /\ lifecycles = 0
    /\ order = [t \in Threads |-> <<>>]
    /\ suborder = [t \in Threads |-> <<>>]
    /\ want = [t \in Threads |-> 0]
    /\ slept = [t \in Threads |-> 0]
    /\ lastDt = [t \in Threads |-> 0]
    /\ stopAt = [t \in Threads |-> -1]
    /\ late = [t \in Threads |-> 0]
    /\ extracted = [t \in Threads |-> NoExtraction]
    /\ ref_cache = [p \in Paths |-> NoBitmap]
    /\ disk = InitialDisk
    /\ used = {}
    /\ reads = [p \in Paths |-> 0]
    /\ decodes = [p \in Paths |-> 0]
    /\ matched = LastMatch("", NoImage, NoBitmap)
    /\ macro_running = FALSE
    /\ executor = NoExecutor
    /\ after_queue = <<>>
    /\ ex_pc = [e \in Executors |-> "none"]
    /\ ex_running = [e \in Executors |-> FALSE]
    /\ ex_i = [e \in Executors |-> 0]
    /\ ex_count = [e \in Executors |-> 0]
    /\ ex_ok = [e \in Executors |-> FALSE]

(* One worker thread calls run(), up to MaxCalls times in a row; stop()
   comes from any other thread. *)
Init ==
    /\ actions \in ActionLists
    /\ loop_arg \in LoopArgs
    /\ quota = [t \in Threads |-> IF t = 1 THEN MaxCalls ELSE 0]
    /\ Init0

(* Two threads each call run() once on the same instance. *)
InitConc ==
    /\ actions \in ConcActionLists
    /\ loop_arg = 1
    /\ quota = [t \in Threads |-> 1]
    /\ Init0

Emit(t, evs) == log' = [log EXCEPT ![t] = @ \o evs]
Goto(t, l) == pc' = [pc EXCEPT ![t] = l]

InRun(t) == pc[t] # "idle"

(* Thread t is inside run(), past line 133 *)
FlagSetBy(t) == pc[t] \notin {"idle", "chk_running", "set_running"}

(* run() returns: the history of the call is closed *)
Returned(t) ==
    /\ calls' = [calls EXCEPT ![t] = @ + 1]
    /\ earlier' = [u \in Threads |-> IF u = t THEN {} ELSE earlier[u] \ {t}]

(* The positions inside _execute_action and what it calls *)
HandlerLabels == {"exec", "sleep", "img_wait", "img_decide", "sub_head"}

(* The phase of run() a thread is in, as seen by a stop() arriving now *)
Phase(t) ==
    CASE pc[t] \in {"chk_running", "set_running"} -> "entry"
      [] pc[t] = "cd_check" -> "countdown"
      [] pc[t] = "cd_sleep" -> IF i[t] > 1 THEN "countdown" ELSE "cd_tail"
      [] pc[t] \in {"loop_head", "act_head"} -> "loop"
      [] pc[t] \in HandlerLabels -> "flight"
      [] OTHER -> "exit"

(* stop(): self._running = False *)
Stop ==
    /\ running' = FALSE
    /\ stopIn' = [t \in Threads |->
                     IF running /\ InRun(t) /\ stopIn[t] = "none" /\ Phase(t) # "entry"
                     THEN Phase(t) ELSE stopIn[t]]
    /\ dispAtStop' = [t \in Threads |-> IF stopIn'[t] # stopIn[t] THEN dispatched[t] ELSE dispAtStop[t]]
    /\ stopPt' = [t \in Threads |->
                     IF stopIn'[t] # stopIn[t]
                     THEN StopPoint(pc[t], ret[t], Len(log[t]), Len(inputs[t])) ELSE stopPt[t]]
    /\ stopIdle' = (stopIdle \/ \A t \in Threads : ~InRun(t))
    /\ stopAt' = [t \in Threads |->
                     IF running /\ pc[t] = "sleep" /\ stopAt[t] = -1 THEN slept[t] ELSE stopAt[t]]
    /\ UNCHANGED <<ret, sub_i, image_found, top_left, score, tmpl, elapsed, center, clipboard,
                   inputs, suborder, want, slept, lastDt, extracted, cacheVars, uiVars>>
    /\ UNCHANGED <<actions, loop_arg, loop_count, quota, order, late, pc, i, loop_index, idx,
                   action_count, total_actions, completed_ok, remaining, exc, log,
                   calls, dispatched, preStop, cancelSeen, earlier, lifecycles>>

(* run(), lines 115-125: entry and the empty-list check.  The locals of the
   new call start out unset (0, FALSE, ""). *)
RunEntry(t) ==
    /\ pc[t] = "idle"
    /\ calls[t] < quota[t]
    /\ dispatched' = [dispatched EXCEPT ![t] = 0]
    /\ cancelSeen' = [cancelSeen EXCEPT ![t] = FALSE]
    /\ stopIn' = [stopIn EXCEPT ![t] = "none"]
    /\ dispAtStop' = [dispAtStop EXCEPT ![t] = 0]
    /\ stopPt' = [stopPt EXCEPT ![t] = NoStopPoint]
    /\ preStop' = [preStop EXCEPT ![t] = stopIdle]
    /\ stopIdle' = FALSE
    /\ exc' = [exc EXCEPT ![t] = ""]
    /\ IF NoActions(actions)
       THEN /\ log' = [log EXCEPT ![t] = <<Status("No actions to execute.", 0), Done(FALSE)>>]
            /\ Returned(t)
            /\ UNCHANGED pc
       ELSE /\ log' = [log EXCEPT ![t] = <<>>]
            /\ earlier' = [earlier EXCEPT ![t] = {u \in Threads \ {t} : FlagSetBy(u)}]
            /\ Goto(t, "chk_running")
            /\ UNCHANGED calls
    /\ i' = [i EXCEPT ![t] = 0]
    /\ loop_index' = [loop_index EXCEPT ![t] = 0]
    /\ idx' = [idx EXCEPT ![t] = 0]
    /\ action_count' = [action_count EXCEPT ![t] = 0]
    /\ total_actions' = [total_actions EXCEPT ![t] = 0]
    /\ completed_ok' = [completed_ok EXCEPT ![t] = FALSE]
    /\ remaining' = [remaining EXCEPT ![t] = 0]
    /\ ret' = [ret EXCEPT ![t] = "act"]
    /\ sub_i' = [sub_i EXCEPT ![t] = 0]
    /\ image_found' = [image_found EXCEPT ![t] = FALSE]
    /\ top_left' = [top_left EXCEPT ![t] = <<>>]
    /\ score' = [score EXCEPT ![t] = 0]
    /\ tmpl' = [tmpl EXCEPT ![t] = <<0, 0>>]
    /\ elapsed' = [elapsed EXCEPT ![t] = 0]
    /\ center' = [center EXCEPT ![t] = <<>>]
    /\ inputs' = [inputs EXCEPT ![t] = <<>>]
    /\ order' = [order EXCEPT ![t] = <<>>]
    /\ suborder' = [suborder EXCEPT ![t] = <<>>]
    /\ want' = [want EXCEPT ![t] = 0]
    /\ slept' = [slept EXCEPT ![t] = 0]
    /\ lastDt' = [lastDt EXCEPT ![t] = 0]
    /\ stopAt' = [stopAt EXCEPT ![t] = -1]
    /\ late' = [late EXCEPT ![t] = 0]
    /\ extracted' = [extracted EXCEPT ![t] = NoExtraction]
    /\ UNCHANGED <<actions, loop_arg, loop_count, running, quota, lifecycles, clipboard, cacheVars, uiVars>>

(* run(), lines 127-131: the already-running guard *)
CheckRunning(t) ==
    /\ pc[t] = "chk_running"
    /\ IF AlreadyRunning(running)
       THEN /\ Emit(t, <<Status("Macro is already running.", 0), Done(FALSE)>>)
            /\ Goto(t, "idle")
            /\ Returned(t)
       ELSE /\ Goto(t, "set_running")
            /\ UNCHANGED <<log, calls, earlier>>
    /\ UNCHANGED <<handlerVars, cacheVars, uiVars, actions, loop_arg, loop_count, running, quota, order, late, i, loop_index, idx,
                   action_count, total_actions, completed_ok, remaining, exc,
                   dispatched, stopIn, dispAtStop, stopPt, stopIdle, preStop, cancelSeen, lifecycles>>

(* run(), lines 133-134 *)
SetRunning(t) ==
    /\ pc[t] = "set_running"
    /\ running' = FlagAtStart(running)
    /\ completed_ok' = [completed_ok EXCEPT ![t] = FALSE]
    /\ i' = [i EXCEPT ![t] = CountdownFrom]
    /\ lifecycles' = lifecycles + 1
    /\ Goto(t, "cd_check")
    /\ UNCHANGED <<handlerVars, cacheVars, uiVars, actions, loop_arg, loop_count, quota, order, late, loop_index, idx,
                   action_count, total_actions, remaining, exc, log, calls,
                   dispatched, stopIn, dispAtStop, stopPt, stopIdle, preStop, cancelSeen, earlier>>

(* run(), lines 139-144: one countdown tick.  The `return` inside the try
   block passes through the finally block. *)
CountdownTick(t) ==
    /\ pc[t] = "cd_check"
    /\ IF CountdownCancelled(running)
       THEN /\ Emit(t, <<Status("Macro start cancelled.", 0), Done(FALSE)>>)
            /\ cancelSeen' = [cancelSeen EXCEPT ![t] = TRUE]
            /\ Goto(t, "finally")
       ELSE /\ Emit(t, <<Status("Starting in", i[t])>>)
            /\ Goto(t, "cd_sleep")
            /\ UNCHANGED cancelSeen
    /\ UNCHANGED <<handlerVars, cacheVars, uiVars, actions, loop_arg, loop_count, running, quota, order, late, i, loop_index, idx,
                   action_count, total_actions, completed_ok, remaining, exc, calls,
                   dispatched, stopIn, dispAtStop, stopPt, stopIdle, preStop, earlier, lifecycles>>

(* run(), line 145 time.sleep(1.0), the next value of i, and after the last
   tick lines 147-148 and the start of the outer loop *)
CountdownSleep(t) ==
    /\ pc[t] = "cd_sleep"
    /\ late' = [late EXCEPT ![t] = @ + Unheard(CountdownPauseMs, running)]
    /\ i' = [i EXCEPT ![t] = @ - 1]
    /\ IF i[t] - 1 > 0
       THEN /\ Goto(t, "cd_check")
            /\ UNCHANGED <<total_actions, action_count, loop_index>>
       ELSE /\ total_actions' = [total_actions EXCEPT ![t] = TotalActions(actions, loop_count)]
            /\ action_count' = [action_count EXCEPT ![t] = 0]
            /\ loop_index' = [loop_index EXCEPT ![t] = 0]
            /\ Goto(t, "loop_head")
    /\ UNCHANGED <<handlerVars, cacheVars, uiVars, actions, loop_arg, loop_count, running, quota, order, idx,
                   completed_ok, remaining, exc, log, calls,
                   dispatched, stopIn, dispAtStop, stopPt, stopIdle, preStop, cancelSeen, earlier, lifecycles>>

(* run(), lines 150-154: head of the outer loop *)
LoopHead(t) ==
    /\ pc[t] = "loop_head"
    /\ IF loop_index[t] >= loop_count
       THEN /\ Goto(t, "chk_complete")
            /\ UNCHANGED <<log, idx, cancelSeen>>
       ELSE IF OuterCancelled(running)
            THEN /\ Goto(t, "chk_complete")
                 /\ cancelSeen' = [cancelSeen EXCEPT ![t] = TRUE]
                 /\ UNCHANGED <<log, idx>>
            ELSE /\ Emit(t, <<Status("Executing loop", loop_index[t] + 1)>>)
                 /\ idx' = [idx EXCEPT ![t] = 1]
                 /\ Goto(t, "act_head")
                 /\ UNCHANGED cancelSeen
    /\ UNCHANGED <<handlerVars, cacheVars, uiVars, actions, loop_arg, loop_count, running, quota, order, late, i, loop_index,
                   action_count, total_actions, completed_ok, remaining, exc, calls,
                   dispatched, stopIn, dispAtStop, stopPt, stopIdle, preStop, earlier, lifecycles>>

(* run(), lines 156-161: head of the inner loop, up to the progress status *)
ActHead(t) ==
    /\ pc[t] = "act_head"
    /\ IF idx[t] > Len(actions)
       THEN /\ loop_index' = [loop_index EXCEPT ![t] = @ + 1]
            /\ Goto(t, "loop_head")
            /\ UNCHANGED <<log, action_count, dispatched, cancelSeen, order>>
       ELSE IF InnerCancelled(running)
            THEN /\ loop_index' = [loop_index EXCEPT ![t] = @ + 1]
                 /\ cancelSeen' = [cancelSeen EXCEPT ![t] = TRUE]
                 /\ Goto(t, "loop_head")
                 /\ UNCHANGED <<log, action_count, dispatched, order>>
            ELSE /\ action_count' = [action_count EXCEPT ![t] = @ + 1]
                 /\ dispatched' = [dispatched EXCEPT ![t] = @ + 1]
                 /\ order' = [order EXCEPT ![t] = Append(@, idx[t])]
                 /\ Emit(t, <<Status("Action", action_count[t] + 1)>>)
                 /\ Goto(t, "exec")
                 /\ UNCHANGED <<loop_index, cancelSeen>>
    /\ UNCHANGED <<handlerVars, cacheVars, uiVars, actions, loop_arg, loop_count, running, quota, late, i, idx,
                   total_actions, completed_ok, remaining, exc, calls,
                   stopIn, dispAtStop, stopPt, stopIdle, preStop, earlier, lifecycles>>

(* What no step inside a handler touches *)
runFrame == <<actions, loop_arg, loop_count, running, quota, order, i, loop_index,
              action_count, total_actions, completed_ok, calls, dispatched,
              stopIn, dispAtStop, stopPt, stopIdle, preStop, cancelSeen, earlier, lifecycles>>

(* The locals of _execute_img_check and _execute_sub_actions *)
imgLocals == <<sub_i, image_found, top_left, score, tmpl, elapsed, center>>

(* _sleep_with_checks(seconds) is entered, line 193 *)
EnterSleep(t, seconds, from) ==
    /\ remaining' = [remaining EXCEPT ![t] = SleepFor(seconds)]
    /\ ret' = [ret EXCEPT ![t] = from]
    /\ want' = [want EXCEPT ![t] = seconds]
    /\ slept' = [slept EXCEPT ![t] = 0]
    /\ lastDt' = [lastDt EXCEPT ![t] = 0]
    /\ stopAt' = [stopAt EXCEPT ![t] = IF running THEN -1 ELSE 0]
    /\ Goto(t, "sleep")

(* An exception leaves _execute_action towards the except block of run() *)
Raise(t, e) ==
    /\ exc' = [exc EXCEPT ![t] = e]
    /\ Goto(t, "except")
    /\ UNCHANGED idx

(* _execute_action returns and the inner loop takes the next action *)
HandlerReturn(t) ==
    /\ idx' = [idx EXCEPT ![t] = @ + 1]
    /\ Goto(t, "act_head")
    /\ UNCHANGED exc

(* run(), line 162: self._execute_action(action), for the actions whose
   handler is a single call: click, drag, delay, copy, paste, hotkey, key
   and the unknown tags *)
ExecuteAction(t) ==
    /\ pc[t] = "exec"
    /\ actions[idx[t]].typ \notin {"ocr", "img_check"}
    /\ LET a == actions[idx[t]]
           out == HandlerOutcome(a)
       IN  CASE out = "raise" ->
                  /\ Raise(t, a.typ)
                  /\ UNCHANGED <<remaining, ret, log, inputs, sleepHist>>
             [] out = "sleep" ->
                  /\ EnterSleep(t, DelayTime(a), "act")
                  /\ UNCHANGED <<idx, exc, log, inputs>>
             [] out = "status" ->
                  /\ Emit(t, <<Status("Unknown action type", 0)>>)
                  /\ HandlerReturn(t)
                  /\ UNCHANGED <<remaining, ret, inputs, sleepHist>>
             [] OTHER ->
                  /\ inputs' = [inputs EXCEPT ![t] = @ \o HandlerInputs(a)]
                  /\ HandlerReturn(t)
                  /\ UNCHANGED <<remaining, ret, log, sleepHist>>
    /\ UNCHANGED <<imgLocals, clipboard, suborder>>
    /\ UNCHANGED <<runFrame, cacheVars, uiVars, late, extracted>>

(* _execute_ocr, lines 321-400, with the recogniser's answers chosen by the
   environment *)
ExecuteOcr(t) ==
    /\ pc[t] = "exec"
    /\ actions[idx[t]].typ = "ocr"
    /\ LET a == actions[idx[t]]
       IN  IF a.bad
           THEN /\ Raise(t, "ocr")
                /\ UNCHANGED <<log, clipboard, extracted>>
           ELSE \E env \in OcrEnvs :
                  LET rec == Recognize(env)
                      r == ProcessOcrText(rec.text, OcrMode(a), OcrPattern(a))
                      p == OcrProcessing(a)
                  IN  IF rec.raised
                      THEN /\ Raise(t, "ocr")
                           /\ UNCHANGED <<log, clipboard, extracted>>
                      ELSE /\ extracted' = [extracted EXCEPT ![t] =
                                                Extraction(rec.text, OcrMode(a), r)]
                           /\ IF Falsy(r)
                              THEN /\ Emit(t, <<Status("OCR: No matches found for mode", 0)>>)
                                   /\ HandlerReturn(t)
                                   /\ UNCHANGED clipboard
                              ELSE /\ clipboard' = IF OcrWrites(p) THEN OcrClipboard(r, p)
                                                   ELSE clipboard
                                   /\ Emit(t, <<OcrStatus(r, p)>>)
                                   /\ HandlerReturn(t)
    /\ UNCHANGED <<remaining, ret, imgLocals, inputs, suborder, sleepHist>>
    /\ UNCHANGED <<runFrame, cacheVars, uiVars, late>>

(* The outcome of one capture_and_match() goes into the locals, line 468 or
   lines 480-481 *)
TakeMatch(t, m, found) ==
    /\ score' = [score EXCEPT ![t] = m.score]
    /\ top_left' = [top_left EXCEPT ![t] = m.top_left]
    /\ tmpl' = [tmpl EXCEPT ![t] = <<m.w, m.h>>]
    /\ image_found' = [image_found EXCEPT ![t] = found]

(* _execute_img_check, lines 421-465 and 480-481: the checks, the
   configuration, and either the start of the wait loop or the single
   capture *)
ExecuteImgCheck(t) ==
    /\ pc[t] = "exec"
    /\ actions[idx[t]].typ = "img_check"
    /\ LET a == actions[idx[t]]
       IN  IF a.short
           THEN /\ Raise(t, "img_check")
                /\ UNCHANGED <<log, image_found, top_left, score, tmpl, elapsed>>
                /\ UNCHANGED <<ref_cache, cacheHist>>
           ELSE IF ~disk[a.image].exists
           THEN /\ Emit(t, <<Status("Image check skipped: file not found", 0)>>)
                /\ HandlerReturn(t)
                /\ UNCHANGED <<image_found, top_left, score, tmpl, elapsed>>
                /\ UNCHANGED <<ref_cache, cacheHist>>
           ELSE IF a.bad
           THEN /\ Raise(t, "img_check")
                /\ UNCHANGED <<log, image_found, top_left, score, tmpl, elapsed>>
                /\ UNCHANGED <<ref_cache, cacheHist>>
           ELSE /\ elapsed' = [elapsed EXCEPT ![t] = 0]
                /\ UNCHANGED <<idx, exc>>
                /\ IF ImgConfig(a.cfg).wait
                   THEN /\ TakeMatch(t, Match(FALSE, 0, <<>>, 0, 0), FALSE)
                        /\ Emit(t, <<Status("Waiting for image", 0)>>)
                        /\ Goto(t, "img_wait")
                        /\ UNCHANGED <<ref_cache, cacheHist>>
                   ELSE \E cap \in Captures :
                          LET m == MatchTemplate(a.image, Region(a.coords), cap)
                          IN  /\ TakeMatch(t, m, Matched(m, ImgConfig(a.cfg).threshold))
                              /\ UseCache(a.image)
                              /\ Goto(t, "img_decide")
                              /\ UNCHANGED log
    /\ UNCHANGED <<remaining, ret, sub_i, center, clipboard, inputs, suborder, sleepHist>>
    /\ UNCHANGED <<runFrame, disk, uiVars, late, extracted>>

(* _execute_img_check, lines 467-477: one turn of the wait loop, up to the
   call of _sleep_with_checks.  The clock is followed only when a timeout is
   set. *)
ImgWait(t) ==
    /\ pc[t] = "img_wait"
    /\ LET a == actions[idx[t]]
           c == ImgConfig(a.cfg)
       IN  IF ~running
           THEN /\ Goto(t, "img_decide")
                /\ UNCHANGED <<image_found, top_left, score, tmpl, elapsed, remaining, ret, sleepHist>>
                /\ UNCHANGED <<ref_cache, cacheHist>>
           ELSE \E cap \in Captures :
                  LET m == MatchTemplate(a.image, Region(a.coords), cap)
                      now == IF c.timeout > 0 THEN elapsed[t] + cap.ms ELSE 0
                  IN  /\ elapsed' = [elapsed EXCEPT ![t] = now]
                      /\ UseCache(a.image)
                      /\ IF Matched(m, c.threshold)
                         THEN /\ TakeMatch(t, m, TRUE)
                              /\ Goto(t, "img_decide")
                              /\ UNCHANGED <<remaining, ret, sleepHist>>
                         ELSE IF GivesUp(m, now, c.timeout)
                         THEN /\ TakeMatch(t, m, image_found[t])
                              /\ Goto(t, "img_decide")
                              /\ UNCHANGED <<remaining, ret, sleepHist>>
                         ELSE /\ TakeMatch(t, m, image_found[t])
                              /\ EnterSleep(t, PollSleep(c.interval), "img")
    /\ UNCHANGED <<idx, exc, log, sub_i, center, clipboard, inputs, suborder>>
    /\ UNCHANGED <<runFrame, disk, uiVars, late, extracted>>

(* Mutant: the handler does not look at the flag after the search *)
StoppedDuringWaitMut(flag) == FALSE

(* `if not self._running: return  # stopped during wait`, lines 483-484 *)
StoppedDuringWait(flag) == ~flag

(* _execute_img_check, lines 483-507: after the search *)
ImgDecide(t) ==
    /\ pc[t] = "img_decide"
    /\ LET a == actions[idx[t]]
       IN  IF StoppedDuringWait(running)
           THEN /\ HandlerReturn(t)
                /\ UNCHANGED <<log, center, sub_i, suborder>>
           ELSE IF image_found[t] /\ top_left[t] # <<>>
           THEN /\ Emit(t, <<Status("Image found, executing sub-actions", Len(a.subs))>>)
                /\ center' = [center EXCEPT ![t] =
                                 Center(Region(a.coords),
                                        [top_left |-> top_left[t], w |-> tmpl[t][1], h |-> tmpl[t][2]])]
                /\ sub_i' = [sub_i EXCEPT ![t] = 1]
                /\ suborder' = [suborder EXCEPT ![t] = <<>>]
                /\ Goto(t, "sub_head")
                /\ UNCHANGED <<idx, exc>>
           ELSE /\ Emit(t, <<Status("Image not found, continuing main flow", 0)>>)
                /\ HandlerReturn(t)
                /\ UNCHANGED <<center, sub_i, suborder>>
    /\ UNCHANGED <<remaining, ret, image_found, top_left, score, tmpl, elapsed, clipboard, inputs,
                   sleepHist>>
    /\ UNCHANGED <<runFrame, cacheVars, uiVars, late, extracted>>

(* _execute_sub_actions, lines 521-559: one turn of the for loop, or its end *)
SubAction(t) ==
    /\ pc[t] = "sub_head"
    /\ LET subs == actions[idx[t]].subs
       IN  IF sub_i[t] > Len(subs) \/ ~running
           THEN /\ HandlerReturn(t)
                /\ UNCHANGED <<sub_i, remaining, ret, log, inputs, suborder, sleepHist>>
           ELSE LET sub == subs[sub_i[t]]
                    out == SubOutcome(sub)
                IN  /\ UNCHANGED <<idx, exc>>
                    /\ suborder' = [suborder EXCEPT ![t] = Append(@, sub_i[t])]
                    /\ CASE out = "input" ->
                              /\ inputs' = [inputs EXCEPT ![t] = @ \o SubInputs(sub, center[t])]
                              /\ sub_i' = [sub_i EXCEPT ![t] = @ + 1]
                              /\ UNCHANGED <<pc, remaining, ret, log, sleepHist>>
                         [] out = "caught" ->
                              /\ sub_i' = [sub_i EXCEPT ![t] = @ + 1]
                              /\ UNCHANGED <<pc, remaining, ret, log, inputs, sleepHist>>
                         [] out = "sleep" ->
                              /\ EnterSleep(t, sub.arg, "sub")
                              /\ UNCHANGED <<sub_i, log, inputs>>
                         [] out = "status" ->
                              /\ Emit(t, <<Status("Unknown sub-action type", 0)>>)
                              /\ sub_i' = [sub_i EXCEPT ![t] = @ + 1]
                              /\ UNCHANGED <<pc, remaining, ret, inputs, sleepHist>>
    /\ UNCHANGED <<image_found, top_left, score, tmpl, elapsed, center, clipboard>>
    /\ UNCHANGED <<runFrame, cacheVars, uiVars, late, extracted>>

(* _sleep_with_checks, lines 195-198: one turn of the while loop, or its
   exit back to the caller: the delay handler, the wait loop of
   _execute_img_check or the sub-action loop *)
SleepStep(t) ==
    /\ pc[t] = "sleep"
    /\ IF SleepGoesOn(remaining[t], running)
       THEN /\ remaining' = [remaining EXCEPT ![t] = @ - SleepDt(@)]
            /\ late' = [late EXCEPT ![t] = @ + Unheard(SleepDt(remaining[t]), running)]
            /\ slept' = [slept EXCEPT ![t] = @ + SleepDt(remaining[t])]
            /\ lastDt' = [lastDt EXCEPT ![t] = SleepDt(remaining[t])]
            /\ elapsed' = [elapsed EXCEPT ![t] =
                              IF ret[t] = "img" /\ ImgConfig(actions[idx[t]].cfg).timeout > 0
                              THEN @ + SleepDt(remaining[t]) ELSE @]
            /\ UNCHANGED <<pc, idx, sub_i>>
       ELSE /\ UNCHANGED <<remaining, elapsed, slept, lastDt, late>>
            /\ CASE ret[t] = "act" ->
                      /\ idx' = [idx EXCEPT ![t] = @ + 1]
                      /\ Goto(t, "act_head")
                      /\ UNCHANGED sub_i
                 [] ret[t] = "img" ->
                      /\ Goto(t, "img_wait")
                      /\ UNCHANGED <<idx, sub_i>>
                 [] ret[t] = "sub" ->
                      /\ sub_i' = [sub_i EXCEPT ![t] = @ + 1]
                      /\ Goto(t, "sub_head")
                      /\ UNCHANGED idx
    /\ UNCHANGED <<exc, log, ret, image_found, top_left, score, tmpl, center, clipboard, inputs,
                   suborder, want, stopAt>>
    /\ UNCHANGED <<runFrame, cacheVars, uiVars, extracted>>

(* run(), lines 164-166 *)
CheckComplete(t) ==
    /\ pc[t] = "chk_complete"
    /\ IF StillRunning(running)
       THEN /\ completed_ok' = [completed_ok EXCEPT ![t] = TRUE]
            /\ Emit(t, <<Status("Macro completed successfully!", 0)>>)
       ELSE UNCHANGED <<completed_ok, log>>
    /\ Goto(t, "finally")
    /\ UNCHANGED <<handlerVars, cacheVars, uiVars, actions, loop_arg, loop_count, running, quota, order, late, i, loop_index, idx,
                   action_count, total_actions, remaining, exc, calls,
                   dispatched, stopIn, dispAtStop, stopPt, stopIdle, preStop, cancelSeen, earlier, lifecycles>>

(* Mutant: the error callback is invoked before the status callback *)
ExceptEventsMut(e) == <<Fatal("error", e), Fatal("status", e)>>

(* The callbacks made by the except block, lines 169-173, for exception e *)
ExceptEvents(e) == <<Fatal("status", e), Fatal("error", e)>>

(* run(), lines 168-174: the run-level exception handler *)
Except(t) ==
    /\ pc[t] = "except"
    /\ Emit(t, ExceptEvents(exc[t]))
    /\ completed_ok' = [completed_ok EXCEPT ![t] = FALSE]
    /\ Goto(t, AfterExcept)
    /\ UNCHANGED <<handlerVars, cacheVars, uiVars, actions, loop_arg, loop_count, running, quota, order, late, i, loop_index, idx,
                   action_count, total_actions, remaining, exc, calls,
                   dispatched, stopIn, dispAtStop, stopPt, stopIdle, preStop, cancelSeen, earlier, lifecycles>>

(* run(), lines 176-179: the finally block, then run() returns *)
Finally(t) ==
    /\ pc[t] = "finally"
    /\ running' = FlagAfterRun(running)
    /\ Emit(t, <<Done(completed_ok[t])>>)
    /\ Goto(t, "idle")
    /\ Returned(t)
    /\ UNCHANGED <<handlerVars, cacheVars, uiVars, actions, loop_arg, loop_count, quota, order, late, i, loop_index, idx,
                   action_count, total_actions, completed_ok, remaining, exc,
                   dispatched, stopIn, dispAtStop, stopPt, stopIdle, preStop, cancelSeen, lifecycles>>

Next ==
    \/ Stop
    \/ \E t \in Threads :
        \/ RunEntry(t)
        \/ CheckRunning(t)
        \/ SetRunning(t)
        \/ CountdownTick(t)
        \/ CountdownSleep(t)
        \/ LoopHead(t)
        \/ ActHead(t)
        \/ ExecuteAction(t)
        \/ ExecuteOcr(t)
        \/ ExecuteImgCheck(t)
        \/ ImgWait(t)
        \/ ImgDecide(t)
        \/ SubAction(t)
        \/ SleepStep(t)
        \/ CheckComplete(t)
        \/ Except(t)
        \/ Finally(t)

Spec == Init /\ [][Next]_vars

(* time.sleep(dt) and capture_and_match() return: a thread inside
   _sleep_with_checks or at the head of the wait loop goes on *)
SpecFair == Spec /\ \A t \in Threads : WF_vars(SleepStep(t)) /\ WF_vars(ImgWait(t))

(* The steps of two callers whose lists hold clicks and delays only *)
NextConc ==
    \/ Stop
    \/ \E t \in Threads :
        \/ RunEntry(t)
        \/ CheckRunning(t)
        \/ SetRunning(t)
        \/ CountdownTick(t)
        \/ CountdownSleep(t)
        \/ LoopHead(t)
        \/ ActHead(t)
        \/ ExecuteAction(t)
        \/ SleepStep(t)
        \/ CheckComplete(t)
        \/ Except(t)
        \/ Finally(t)

SpecConc == InitConc /\ [][NextConc]_vars

(* The files a reference path may come to hold, and the paths whose file
   changes *)
Files == {SmallImage, BigImage, CorruptImage}
Changing == {"small.png", "corrupt.png"}

(* match_template(p, screenshot) called directly, on a capture of 10 x 10 *)
CallMatchTemplate(p, cap) ==
    /\ reads[p] < MaxReads
    /\ UseCache(p)
    /\ UNCHANGED <<execVars, uiVars, disk>>

(* Another program writes the file behind p *)
ChangeFile(p, f) ==
    /\ f # disk[p]
    /\ disk' = [disk EXCEPT ![p] = f]
    /\ UNCHANGED <<execVars, uiVars, ref_cache, cacheHist>>

(* No executor runs; match_template is called on any path in any order *)
InitCache ==
    /\ actions = <<>>
    /\ loop_arg = 1
    /\ quota = [t \in Threads |-> 0]
    /\ Init0

NextCache ==
    \/ \E p \in Paths, cap \in Captures : CallMatchTemplate(p, cap)
    \/ \E p \in Changing, f \in Files : ChangeFile(p, f)

SpecCache == InitCache /\ [][NextCache]_vars

----------------------------------------------------------------------------
(* The window, src/Macro/ui.py: start_macro, stop_macro and _on_macro_done
   run on the Tk main loop, one at a time.  F5, Control-r and Escape are
   bound to start_macro and stop_macro (lines 392-396), so both can be
   called whatever the state of the two buttons.  Every start_macro that
   gets past its checks creates one MacroExecutor and one worker thread that
   calls its run().  actions and loop_arg are self.actions and
   self.loop_count of the window, loop_count the loop_count of every
   executor made from them.  The status and error callbacks only write the
   status line and open a dialog, and are left out. *)

(* done_cb(ok): master.after(0, lambda: self._on_macro_done(ok)); ex, the
   executor whose run() called it, is history *)
DoneCall(e, ok) == [ex |-> e, ok |-> ok]

(* run() of executor e has been handed to a thread and has not returned *)
WorkerInRun(e) == ex_pc[e] \notin {"none", "returned"}

(* start_macro past its checks: a new executor and its thread *)
StartMacro ==
    /\ actions # <<>>
    /\ ~(PasteListLengths(actions) # {} /\ EffectiveLoopCount(actions, loop_arg) < 1)
    /\ ~macro_running
    /\ \E e \in Executors :
        /\ ex_pc[e] = "none"
        /\ \A f \in Executors : f < e => ex_pc[f] # "none"
        /\ executor' = e
        /\ ex_pc' = [ex_pc EXCEPT ![e] = "entry"]
    /\ macro_running' = TRUE
    /\ UNCHANGED <<execVars, cacheVars, after_queue, ex_running, ex_i, ex_count, ex_ok>>

(* stop_macro *)
StopMacro ==
    /\ macro_running' = FALSE
    /\ ex_running' = IF executor # NoExecutor /\ ex_running[executor]
                     THEN [ex_running EXCEPT ![executor] = FALSE]
                     ELSE ex_running
    /\ UNCHANGED <<execVars, cacheVars, executor, after_queue, ex_pc, ex_i, ex_count, ex_ok>>

(* The main loop runs the oldest pending callback, _on_macro_done(ok) *)
OnMacroDone ==
    /\ after_queue # <<>>
    /\ after_queue' = Tail(after_queue)
    /\ macro_running' = FALSE
    /\ executor' = NoExecutor
    /\ UNCHANGED <<execVars, cacheVars, ex_pc, ex_running, ex_i, ex_count, ex_ok>>

(* run(), lines 121-136: the two guards, then the flag is set *)
WorkerEntry(e) ==
    /\ ex_pc[e] = "entry"
    /\ IF actions = <<>>
       THEN /\ after_queue' = Append(after_queue, DoneCall(e, FALSE))
            /\ ex_pc' = [ex_pc EXCEPT ![e] = "returned"]
            /\ UNCHANGED <<ex_running, ex_i, ex_ok>>
       ELSE IF ex_running[e]
       THEN /\ after_queue' = Append(after_queue, DoneCall(e, FALSE))
            /\ ex_pc' = [ex_pc EXCEPT ![e] = "returned"]
            /\ UNCHANGED <<ex_running, ex_i, ex_ok>>
       ELSE /\ ex_running' = [ex_running EXCEPT ![e] = TRUE]
            /\ ex_ok' = [ex_ok EXCEPT ![e] = FALSE]
            /\ ex_i' = [ex_i EXCEPT ![e] = CountdownFrom]
            /\ ex_pc' = [ex_pc EXCEPT ![e] = "countdown"]
            /\ UNCHANGED after_queue
    /\ UNCHANGED <<execVars, cacheVars, macro_running, executor, ex_count>>

(* run(), lines 138-148: one pass of the countdown loop, or the loop's end.
   The return of line 142 is inside the try block, so the finally clause
   runs after it. *)
WorkerCountdown(e) ==
    /\ ex_pc[e] = "countdown"
    /\ IF ex_i[e] = 0
       THEN /\ ex_count' = [ex_count EXCEPT ![e] = 0]
            /\ ex_pc' = [ex_pc EXCEPT ![e] = "loop"]
            /\ UNCHANGED <<after_queue, ex_i>>
       ELSE IF CountdownCancelled(ex_running[e])
       THEN /\ after_queue' = Append(after_queue, DoneCall(e, FALSE))
            /\ ex_pc' = [ex_pc EXCEPT ![e] = "finally"]
            /\ UNCHANGED <<ex_i, ex_count>>
       ELSE /\ ex_i' = [ex_i EXCEPT ![e] = @ - 1]
            /\ UNCHANGED <<after_queue, ex_pc, ex_count>>
    /\ UNCHANGED <<execVars, cacheVars, macro_running, executor, ex_running, ex_ok>>

(* run(), lines 150-162: the next action is dispatched and returns, or the
   loops end because the flag is clear or nothing is left *)
WorkerDispatch(e) ==
    /\ ex_pc[e] = "loop"
    /\ IF ex_running[e] /\ ex_count[e] < TotalActions(actions, loop_count)
       THEN /\ ex_count' = [ex_count EXCEPT ![e] = @ + 1]
            /\ UNCHANGED ex_pc
       ELSE /\ ex_pc' = [ex_pc EXCEPT ![e] = "test"]
            /\ UNCHANGED ex_count
    /\ UNCHANGED <<execVars, cacheVars, macro_running, executor, after_queue, ex_running, ex_i, ex_ok>>

(* run(), lines 164-166 *)
WorkerCheckComplete(e) ==
    /\ ex_pc[e] = "test"
    /\ ex_ok' = [ex_ok EXCEPT ![e] = StillRunning(ex_running[e])]
    /\ ex_pc' = [ex_pc EXCEPT ![e] = "finally"]
    /\ UNCHANGED <<execVars, cacheVars, macro_running, executor, after_queue, ex_running, ex_i, ex_count>>

(* run(), lines 176-179: the finally clause *)
WorkerFinally(e) ==
    /\ ex_pc[e] = "finally"
    /\ ex_running' = [ex_running EXCEPT ![e] = FALSE]
    /\ after_queue' = Append(after_queue, DoneCall(e, ex_ok[e]))
    /\ ex_pc' = [ex_pc EXCEPT ![e] = "returned"]
    /\ UNCHANGED <<execVars, cacheVars, macro_running, executor, ex_i, ex_count, ex_ok>>

(* The lists and loop counts of the window: clicks only *)
UiActionLists == {<<Click>>, <<Click, Click>>}

InitUI ==
    /\ actions \in UiActionLists
    /\ loop_arg \in 1..MaxLoop
    /\ quota = [t \in Threads |-> 0]
    /\ Init0

NextUI ==
    \/ StartMacro
    \/ StopMacro
    \/ OnMacroDone
    \/ \E e \in Executors :
        \/ WorkerEntry(e)
        \/ WorkerCountdown(e)
        \/ WorkerDispatch(e)
        \/ WorkerCheckComplete(e)
        \/ WorkerFinally(e)

SpecUI == InitUI /\ [][NextUI]_vars

----------------------------------------------------------------------------
(* Reading the event log of a call *)

Last(s) == s[Len(s)]
CountKind(s, k) == Cardinality({ j \in 1 .. Len(s) : s[j].k = k })
Has(s, e) == \E j \in 1 .. Len(s) : s[j] = e
Ticks(s) == SelectSeq(s, LAMBDA e : e.m = "Starting in")

(* The call of thread t has returned, and log[t] is what it reported *)
Ended(t) == pc[t] = "idle" /\ calls[t] > 0

(* The call was turned away at line 121 or line 127 *)
Rejected(t) ==
    /\ Len(log[t]) > 0
    /\ log[t][1] \in { Status("No actions to execute.", 0), Status("Macro is already running.", 0) }

(* The call went past both guards and has returned *)
RanAndEnded(t) == Ended(t) /\ ~Rejected(t)

FullCountdown(s) ==
    /\ Len(s) >= 3
    /\ SubSeq(s, 1, 3) = <<Status("Starting in", 3), Status("Starting in", 2), Status("Starting in", 1)>>

AllIdle == \A t \in Threads : pc[t] = "idle"

InFlight(t) == pc[t] \in HandlerLabels

----------------------------------------------------------------------------
(* C1: every call of run() invokes the done callback exactly once, whichever
   path it takes (stated as claimed; the cancelled countdown refutes it). *)
C1_DoneExactlyOnce ==
    \A t \in Threads :
        /\ CountKind(log[t], "done") <= 1
        /\ Ended(t) => CountKind(log[t], "done") = 1

(* C2, as claimed: a call that went past the guards made N * len(actions)
   dispatch attempts unless cancellation interrupted it. *)
C2_Original ==
    \A t \in Threads :
        RanAndEnded(t) => (dispatched[t] = Len(actions) * loop_count \/ cancelSeen[t])

(* C2, amended: the number of dispatch attempts of a call never exceeds
   N * len(actions), with N the loop count coerced to at least 1; the
   progress counter of "Action i/total" equals the number of dispatch
   attempts and never exceeds total; a call that has returned made all
   N * len(actions) attempts unless it saw the flag cleared or a handler
   raised; and once a call has seen the flag cleared no action is in flight
   again. *)
C2_DispatchCount ==
    /\ loop_count >= 1
    /\ loop_count = (IF loop_arg < 1 THEN 1 ELSE loop_arg)
    /\ \A t \in Threads :
        /\ action_count[t] = dispatched[t]
        /\ dispatched[t] <= Len(actions) * loop_count
        /\ pc[t] \in {"loop_head", "act_head", "exec", "sleep"} =>
              /\ total_actions[t] = Len(actions) * loop_count
              /\ action_count[t] <= total_actions[t]
        /\ \A j \in 1 .. Len(log[t]) :
              log[t][j].m = "Action" => log[t][j].n <= total_actions[t]
        /\ RanAndEnded(t) =>
              (dispatched[t] = Len(actions) * loop_count \/ cancelSeen[t] \/ exc[t] # "")
        /\ cancelSeen[t] => ~InFlight(t) /\ pc[t] # "except"

C2_Witness ==
    /\ loop_arg = 0
    /\ Len(actions) = 2
    /\ RanAndEnded(1)
    /\ cancelSeen[1]
    /\ dispatched[1] = 1

(* C3: a handler exception is reported as status, then the same message as
   error, then done(false); the error callback is invoked at most once per
   call, only for a raised exception, and never in a call that ends with
   done(true). *)
C3_FatalReport ==
    \A t \in Threads :
        /\ CountKind(log[t], "error") <= 1
        /\ CountKind(log[t], "error") = 1 => exc[t] # ""
        /\ (Ended(t) /\ exc[t] # "") =>
              /\ Len(log[t]) >= 3
              /\ SubSeq(log[t], Len(log[t]) - 2, Len(log[t])) =
                    <<Fatal("status", exc[t]), Fatal("error", exc[t]), Done(FALSE)>>
              /\ CountKind(log[t], "error") = 1
        /\ (Ended(t) /\ Last(log[t]) = Done(TRUE)) => CountKind(log[t], "error") = 0

C3_Witness == Ended(1) /\ exc[1] = "click" /\ dispatched[1] = 2

(* The actions whose handler raises whatever the environment does: a
   malformed click, drag, key, ocr or img_check and a failing hotkey *)
Raises(a) ==
    \/ a.typ \in {"click", "drag", "key", "ocr", "img_check"} /\ a.bad
    \/ a.typ = "hotkey" /\ a.bad /\ a.arg > 0
    \/ a.typ = "img_check" /\ a.short

(* C4: once a top-level handler has raised, control is in the except block,
   the finally block or back at the caller, the raising action is the last
   one that was dispatched (none of the same or of a later iteration
   follows), and the call ends with done(false); each of the malformed
   click, drag, key, ocr, img_check and the failing hotkey does raise when
   it is dispatched first. *)
C4_AllOrNothing ==
    \A t \in Threads :
        /\ exc[t] # "" =>
              /\ pc[t] \in {"except", "finally", "idle"}
              /\ dispatched[t] = loop_index[t] * Len(actions) + idx[t]
              /\ exc[t] = actions[idx[t]].typ
        /\ (Ended(t) /\ exc[t] # "") => Last(log[t]) = Done(FALSE)
        /\ (Ended(t) /\ dispatched[t] > 0 /\ Raises(actions[1])) =>
              /\ exc[t] = actions[1].typ
              /\ dispatched[t] = 1

C4_Witness ==
    /\ Ended(1)
    /\ exc[1] = "img_check"
    /\ Len(actions) = 2
    /\ loop_count = 2
    /\ dispatched[1] = 1
    /\ total_actions[1] = 4

(* C5, as claimed: after a stop() in the Looping state the call ends with
   done(false) and the error callback is never called. *)
C5_Original ==
    \A t \in Threads :
        (Ended(t) /\ stopIn[t] \in {"loop", "flight"}) =>
            /\ Last(log[t]) = Done(FALSE)
            /\ CountKind(log[t], "error") = 0

(* C5, amended: once stop() has cleared the flag while the call is in the
   Looping state, no further top-level action is dispatched, the call ends
   with done(false), and the error callback is called only if the action
   that was in flight when stop() arrived itself raises. *)
C5_StopInLoop ==
    \A t \in Threads :
        stopIn[t] \in {"loop", "flight"} =>
            /\ dispatched[t] = dispAtStop[t]
            /\ stopIn[t] = "loop" => (~InFlight(t) /\ exc[t] = "")
            /\ Ended(t) =>
                  /\ Last(log[t]) = Done(FALSE)
                  /\ ~Has(log[t], Status("Macro completed successfully!", 0))
                  /\ stopIn[t] = "loop" => CountKind(log[t], "error") = 0

C5_Witness ==
    /\ Ended(1)
    /\ stopIn[1] = "flight"
    /\ dispatched[1] = 1
    /\ Len(actions) * loop_count = 4
    /\ CountKind(log[1], "error") = 0

(* C6: a stop() between the setting of the flag and the end of the countdown
   means no action is ever dispatched in that call and it ends with
   done(false); when the stop() arrives before the start of a countdown tick
   the status "Macro start cancelled." is emitted, and no countdown tick is
   ever emitted after that status. *)
C6_StopInCountdown ==
    \A t \in Threads :
        /\ stopIn[t] \in {"countdown", "cd_tail"} =>
              /\ dispatched[t] = 0
              /\ ~InFlight(t)
              /\ Ended(t) =>
                    /\ Last(log[t]) = Done(FALSE)
                    /\ ~Has(log[t], Done(TRUE))
                    /\ stopIn[t] = "countdown" => Has(log[t], Status("Macro start cancelled.", 0))
        /\ \A j, k \in 1 .. Len(log[t]) :
              (log[t][j] = Status("Macro start cancelled.", 0) /\ k > j) =>
                  log[t][k].m # "Starting in"

C6_Witness ==
    /\ Ended(1)
    /\ stopIn[1] = "countdown"
    /\ Ticks(log[1]) = <<Status("Starting in", 3), Status("Starting in", 2)>>

(* C7: stop() outside a run is a no-op: a stop() taken while no call of
   run() is in progress changes nothing of the engine, and a call of run()
   during which no stop() cleared the flag performs the full countdown 3, 2,
   1 and dispatches the actions (all of them unless a handler raises). *)
C7_StopOutsideRun ==
    /\ [][(AllIdle /\ Stop) => UNCHANGED progVars]_vars
    /\ [](\A t \in Threads :
            (RanAndEnded(t) /\ stopIn[t] = "none") =>
                /\ FullCountdown(log[t])
                /\ dispatched[t] >= 1
                /\ exc[t] = "" =>
                      /\ dispatched[t] = Len(actions) * loop_count
                      /\ Last(log[t]) = Done(TRUE))

C7_Witness ==
    /\ calls[1] = 1
    /\ Ended(1)
    /\ preStop[1]
    /\ stopIdle
    /\ FullCountdown(log[1])
    /\ Last(log[1]) = Done(TRUE)

(* C8: run() on an empty action list emits one status message and
   done(false), and never sets the running flag, starts a countdown or
   dispatches anything. *)
C8_EmptyList ==
    actions = <<>> =>
        /\ running = FALSE
        /\ lifecycles = 0
        /\ \A t \in Threads :
              /\ pc[t] = "idle"
              /\ dispatched[t] = 0
              /\ calls[t] > 0 => log[t] = <<Status("No actions to execute.", 0), Done(FALSE)>>

C8_Witness == actions = <<>> /\ calls[1] = 2

(* C9: a call of run() made while an earlier call on the same instance has
   set the running flag and has not returned never gets past the
   already-running guard (stated as claimed; refuted under two callers by a
   stop() that arrives while the earlier call is still at work). *)
C9_SecondRunRejected ==
    \A t \in Threads :
        earlier[t] # {} => pc[t] = "chk_running"

(* C10, as claimed: an instance goes through the lifecycle at most once. *)
C10_Original == lifecycles <= 1

(* C10, amended: a call of run() goes through Idle -> Countdown -> Looping
   -> end at most once, and when it has ended the instance is idle again
   with the flag cleared; a further run() call on the same instance is not
   turned away: it starts a new countdown and dispatches the actions again
   from the first one. *)
C10_Restart ==
    /\ AllIdle => ~running
    /\ \A t \in Threads :
        /\ Len(Ticks(log[t])) <= 3
        /\ (calls[t] >= 1 /\ pc[t] = "chk_running") => ~running
        /\ (calls[t] >= 2 /\ Ended(t) /\ actions # <<>>) =>
              /\ ~Rejected(t)
              /\ stopIn[t] = "none" =>
                    /\ FullCountdown(log[t])
                    /\ Has(log[t], Status("Action", 1))

C10_Witness ==
    /\ calls[1] = 2
    /\ Ended(1)
    /\ lifecycles = 2
    /\ FullCountdown(log[1])
    /\ Last(log[1]) = Done(TRUE)

----------------------------------------------------------------------------
Completed == Status("Macro completed successfully!", 0)

(* The call of thread t has returned and its last callback was done(true) *)
Succeeded(t) == Ended(t) /\ Last(log[t]) = Done(TRUE)

(* C11: a call that ends with done(true) dispatched all N * len(actions)
   top-level actions, had no handler exception, emitted the completion
   status right before its single done callback, and never read the flag as
   cleared; a call that read the flag as cleared at one of its checks, or
   that went through the loops without the completion status, ends with
   done(false), the former without any error callback. *)
C11_DoneTrueOnlyIfComplete ==
    \A t \in Threads :
        /\ Succeeded(t) =>
              /\ dispatched[t] = Len(actions) * loop_count
              /\ total_actions[t] = dispatched[t]
              /\ exc[t] = ""
              /\ ~cancelSeen[t]
              /\ stopIn[t] \in {"none", "exit"}
              /\ Len(log[t]) >= 2
              /\ log[t][Len(log[t]) - 1] = Completed
              /\ CountKind(log[t], "done") = 1
              /\ CountKind(log[t], "error") = 0
        /\ (Ended(t) /\ cancelSeen[t]) =>
              /\ Last(log[t]) = Done(FALSE)
              /\ CountKind(log[t], "error") = 0
              /\ ~Has(log[t], Completed)
        /\ (RanAndEnded(t) /\ ~Has(log[t], Completed)) => Last(log[t]) = Done(FALSE)

C11_Witness ==
    /\ Succeeded(1)
    /\ Len(actions) = 2
    /\ loop_count = 2
    /\ dispatched[1] = 4
    /\ calls[1] = 2

----------------------------------------------------------------------------
(* The list position of the k-th dispatch when the list is repeated in order *)
PositionOf(k) == ((k - 1) % Len(actions)) + 1

(* The ordering inside one call: the dispatched positions are a prefix of
   1..len(actions) repeated loop_count times, and the sub-actions taken up
   by an img_check are 1, 2, ... in list order, while that img_check is the
   action being dispatched *)
OrderedWithinCall(t) ==
    /\ Len(order[t]) = dispatched[t]
    /\ Len(order[t]) <= Len(actions) * loop_count
    /\ \A k \in 1 .. Len(order[t]) : order[t][k] = PositionOf(k)
    /\ \A k \in 1 .. Len(suborder[t]) : suborder[t][k] = k
    /\ pc[t] = "sub_head" =>
          /\ actions[idx[t]].typ = "img_check"
          /\ image_found[t]
          /\ idx[t] = Last(order[t])
          /\ Len(suborder[t]) = sub_i[t] - 1
          /\ Len(suborder[t]) <= Len(actions[idx[t]].subs)

(* C12, as stated: the ordering inside each call, and never two actions of
   the instance in execution at the same time (refuted for two callers: after
   a stop() the second call passes the guard while the first is still inside
   an action). *)
C12_Ordering ==
    /\ \A t \in Threads : OrderedWithinCall(t)
    /\ \A t, u \in Threads : (t # u /\ InFlight(t)) => ~InFlight(u)

(* The ordering part of C12 alone *)
C12_OrderWithinCall == \A t \in Threads : OrderedWithinCall(t)

C12_OrderWitness ==
    /\ pc[1] = "sub_head"
    /\ suborder[1] = <<1, 2, 3>>
    /\ loop_index[1] = 1
    /\ Len(order[1]) = 3

----------------------------------------------------------------------------
Sleeping(t) == pc[t] = "sleep"

(* C13: _sleep_with_checks(d) sleeps in pieces of at most 50 ms; what it
   has slept and what remains add up to max(0, d); it returns with time
   left over only if the flag was cleared, and then it has slept nothing
   since the flag was cleared; if the flag stays set it returns with
   nothing left, having slept max(0, d) (zero for a negative d); and it
   always returns. *)
C13_InterruptibleSleep ==
    /\ [](\A t \in Threads :
            /\ lastDt[t] <= SleepStepMs
            /\ remaining[t] >= 0
            /\ slept[t] + remaining[t] = Max(0, want[t])
            /\ (~Sleeping(t) /\ remaining[t] > 0) => stopAt[t] # -1
            /\ (~Sleeping(t) /\ stopAt[t] = -1) => slept[t] = Max(0, want[t])
            /\ stopAt[t] # -1 => slept[t] = stopAt[t]
            /\ want[t] < 0 => slept[t] = 0)
    /\ \A t \in Threads : Sleeping(t) ~> ~Sleeping(t)

C13_Witness ==
    /\ ~Sleeping(1)
    /\ ret[1] = "act"
    /\ want[1] = 70
    /\ stopAt[1] = 50
    /\ slept[1] = 50
    /\ remaining[1] = 20

----------------------------------------------------------------------------
(* C14, as stated: wherever the engine sleeps, a stop() issued there is
   observed within one 50 ms increment (refuted by the countdown pauses). *)
C14_Original == \A t \in Threads : late[t] <= SleepStepMs

(* C14, amended: inside _sleep_with_checks (delay actions, sub-action delays
   and the img_check polling interval) no piece of sleep is begun once the
   flag is cleared and no piece exceeds 50 ms; the only sleep that goes on
   with the flag cleared is one countdown pause of 1 s, for a stop() issued
   during the countdown. *)
C14_SuspensionPoints ==
    \A t \in Threads :
        /\ lastDt[t] <= SleepStepMs
        /\ late[t] \in {0, CountdownPauseMs}
        /\ late[t] > 0 => stopIn[t] \in {"countdown", "cd_tail"}
        /\ stopIn[t] \in {"loop", "flight"} => late[t] = 0
        /\ (Sleeping(t) /\ ~running) => slept[t] = stopAt[t]

C14_Witness ==
    /\ pc[1] = "img_decide"
    /\ ~running
    /\ ret[1] = "img"
    /\ want[1] = DefaultIntervalMs
    /\ stopAt[1] = 50
    /\ slept[1] = 50
    /\ late[1] = 0

----------------------------------------------------------------------------
(* The longest capture-and-match the environment takes *)
MaxCaptureMs == CHOOSE d \in { c.ms : c \in Captures } : \A c \in Captures : c.ms <= d

(* Thread t is in the wait loop of an img_check that has a timeout *)
InTimedWait(t) ==
    /\ pc[t] = "img_wait" \/ (pc[t] = "sleep" /\ ret[t] = "img")
    /\ ImgConfig(actions[idx[t]].cfg).timeout > 0

(* The wait loop of thread t has ended on its timeout: no match, the last
   capture comparable, the flag still set *)
GaveUp(t) ==
    /\ pc[t] = "img_decide"
    /\ ImgConfig(actions[idx[t]].cfg).wait
    /\ ImgConfig(actions[idx[t]].cfg).timeout > 0
    /\ running
    /\ ~image_found[t]
    /\ top_left[t] # <<>>

(* C15, as stated: a wait that ends on its timeout has lasted at most the
   timeout plus one capture-and-match, whatever the polling interval. *)
C15_Original ==
    \A t \in Threads :
        GaveUp(t) => elapsed[t] <= ImgConfig(actions[idx[t]].cfg).timeout + MaxCaptureMs

(* C15, amended: a wait with a timeout always ends; when it ends on the
   timeout the image is reported as not found, the timeout has passed, and
   the wait has lasted less than the timeout plus one polling sleep plus one
   capture-and-match. *)
C15_TimeoutEndsWait ==
    /\ [](\A t \in Threads :
            LET c == ImgConfig(actions[idx[t]].cfg)
            IN  /\ InTimedWait(t) => elapsed[t] < c.timeout + PollSleep(c.interval)
                /\ GaveUp(t) =>
                      /\ elapsed[t] >= c.timeout
                      /\ elapsed[t] < c.timeout + PollSleep(c.interval) + MaxCaptureMs
                      /\ ~image_found[t])
    /\ \A t \in Threads : InTimedWait(t) ~> pc[t] = "img_decide"

C15_Witness ==
    /\ GaveUp(1)
    /\ ImgConfig(actions[idx[1]].cfg).interval = 200
    /\ elapsed[1] = 230
    /\ stopIn[1] = "none"

----------------------------------------------------------------------------
(* A well-formed key action whose name is outside KEYBOARD_KEYS *)
UnsupportedKey(a) == a.typ = "key" /\ ~a.bad /\ a.arg = 0

MalformedKey(a) == a.typ = "key" /\ a.bad

(* C16: an unsupported key name never raises out of its handler and presses
   nothing; a call whose list starts with one, holds no raising action and
   sees no stop() dispatches all N * len(actions) actions and ends with
   done(true); a malformed key action raises and ends the call with
   done(false) after that one dispatch. *)
C16_UnsupportedKeyIsSoft ==
    \A t \in Threads :
        /\ exc[t] # "" => ~UnsupportedKey(actions[idx[t]])
        /\ (\A k \in 1 .. Len(actions) : actions[k].typ \in {"key", "click"} /\ actions[k].arg = 0)
              => \A j \in 1 .. Len(inputs[t]) : inputs[t][j].name # "press"
        /\ ( /\ RanAndEnded(t)
             /\ UnsupportedKey(actions[1])
             /\ \A k \in 1 .. Len(actions) : ~Raises(actions[k])
             /\ stopIn[t] = "none" )
              => /\ Succeeded(t)
                 /\ dispatched[t] = Len(actions) * loop_count
                 /\ order[t][dispatched[t]] = Len(actions)
        /\ (Ended(t) /\ dispatched[t] > 0 /\ MalformedKey(actions[1]))
              => /\ exc[t] = "key"
                 /\ dispatched[t] = 1
                 /\ Last(log[t]) = Done(FALSE)

C16_Witness ==
    /\ Succeeded(1)
    /\ UnsupportedKey(actions[1])
    /\ Len(actions) = 2
    /\ loop_count = 2
    /\ dispatched[1] = 4
    /\ Len(inputs[1]) = 2

----------------------------------------------------------------------------
(* C17, as stated: a playback that runs to completion has gone through
   min(len(items)) iterations when the list holds paste_list actions, and
   through the configured loop count when it holds none (refuted: the
   executor is always given the configured loop count). *)
C17_PasteListLoops ==
    \A t \in Threads :
        Succeeded(t) =>
            /\ loop_index[t] = EffectiveLoopCount(actions, CoerceLoopCount(loop_arg))
            /\ dispatched[t] = Len(actions) * EffectiveLoopCount(actions, CoerceLoopCount(loop_arg))

----------------------------------------------------------------------------
(* Thread t is inside _execute_img_check, past the decoding of cfg *)
Decoded(t) == pc[t] \in {"img_wait", "img_decide", "sub_head"}

(* What a key missing from a cfg record is to default to *)
DefaultOf(key) ==
    CASE key = "threshold" -> DefaultThreshold
      [] key = "wait" -> FALSE
      [] key = "interval" -> DefaultIntervalMs
      [] key = "timeout" -> DefaultTimeoutMs

(* C18, as stated: for the cfg of every img_check the engine executes, a
   bare threshold decodes like the record holding that threshold alone,
   every key missing from a record takes its default, and the editor decodes
   the cfg to the same four fields as the engine (refuted: the editor's
   default for a missing "wait" is true). *)
C18_ConfigDecoding ==
    \A t \in Threads :
        Decoded(t) =>
            LET cfg == actions[idx[t]].cfg
                c == ImgConfig(cfg)
            IN  /\ ~cfg.dict =>
                      /\ c = [threshold |-> cfg.threshold, wait |-> FALSE,
                              interval |-> DefaultIntervalMs, timeout |-> DefaultTimeoutMs]
                      /\ c = ImgConfig(DictCfg({"threshold"}, cfg.threshold, FALSE, 0, 0))
                /\ cfg.dict => \A key \in AllKeys \ cfg.keys : c[key] = DefaultOf(key)
                /\ EditorConfig(cfg) = c

(* The engine's part of C18 alone *)
C18_EngineDecoding ==
    \A t \in Threads :
        Decoded(t) =>
            LET cfg == actions[idx[t]].cfg
                c == ImgConfig(cfg)
            IN  /\ ~cfg.dict =>
                      /\ c = [threshold |-> cfg.threshold, wait |-> FALSE,
                              interval |-> DefaultIntervalMs, timeout |-> DefaultTimeoutMs]
                      /\ c = ImgConfig(DictCfg({"threshold"}, cfg.threshold, FALSE, 0, 0))
                /\ cfg.dict => \A key \in AllKeys \ cfg.keys : c[key] = DefaultOf(key)

----------------------------------------------------------------------------
(* A standalone n-digit token of text t starts at position p: n digits with
   no word character right before or right after them *)
TokenAt(t, p, n) ==
    /\ p + n - 1 <= Len(t)
    /\ \A k \in p .. p + n - 1 : t[k] \in Digits
    /\ p > 1 => ~IsWord(t[p - 1])
    /\ p + n - 1 < Len(t) => ~IsWord(t[p + n])

TokenStarts(t, n) == { p \in 1 .. Len(t) : TokenAt(t, p, n) }

Zeros(n) == [k \in 1 .. n |-> "0"]

(* What the claim has the legacy mode return for a non-empty text *)
LongestFirst(t) ==
    LET tiers == { n \in 6 .. 9 : TokenStarts(t, n) # {} }
    IN  IF tiers = {} THEN NoResult
        ELSE LET n == CHOOSE m \in tiers : \A l \in tiers : l <= m
                 p == CHOOSE q \in TokenStarts(t, n) : \A r \in TokenStarts(t, n) : q <= r
             IN  StrResult(Zeros(9 - n) \o SubSeq(t, p, p + n - 1))

AllModes == {"all_text", "numbers", "email", "custom", "legacy", "other"}

(* C19: for every non-empty text the legacy mode returns the first
   standalone token of the longest tier among 9, 8, 7 and 6 digits, padded
   with zeros to 9 digits, and None when there is no such token; a 10-digit
   run gives None, a 9-digit token after a 6-digit one wins, "ID: 12345678
   ref" gives "012345678"; an empty text gives None in every mode. *)
C19_LegacyExtraction ==
    /\ \A t \in Threads :
        LET x == extracted[t]
        IN  /\ (x.mode = "legacy" /\ x.text # <<>>) =>
                  /\ x.result = LongestFirst(x.text)
                  /\ x.result.kind = "str" =>
                        /\ Len(x.result.v) = 9
                        /\ \A k \in 1 .. 9 : x.result.v[k] \in Digits
                  /\ x.text = IdText => x.result = StrResult(<<"0">> \o D8)
                  /\ x.text = D10 => x.result = NoResult
                  /\ x.text = D6 \o Sp \o D9 => x.result = StrResult(D9)
            /\ (x.mode # "" /\ x.text = <<>>) => x.result = NoResult
    /\ \A mode \in AllModes : \A pattern \in {"", "(", "\\d+"} :
          ProcessOcrText(<<>>, mode, pattern) = NoResult

C19_Witness ==
    /\ extracted[1] = Extraction(D6 \o Sp \o D9, "legacy", StrResult(D9))
    /\ clipboard = D9
    /\ Ended(1)

----------------------------------------------------------------------------
Cached(p) == ref_cache[p] # NoBitmap

Decodable(file) == file.exists /\ file.readable

(* The statement of C20 as it stands: every path is decoded at most once,
   and exactly once if it was ever used *)
C20_Original ==
    \A p \in Paths :
        /\ decodes[p] <= 1
        /\ p \in used => decodes[p] = 1

(* C20, amended: a path is decoded at most once, and exactly once as soon as
   a call finds its file decodable; from then on every call for it uses the
   cached bitmap without reading the file, the entry is never changed or
   dropped, and a file changed after that decode is not picked up.  A read
   that fails stores nothing, so such a path is read again by the next call. *)
C20_DecodedOnce ==
    /\ [](\A p \in Paths :
            /\ decodes[p] <= 1
            /\ Cached(p) <=> decodes[p] = 1
            /\ Cached(p) => reads[p] >= 1 /\ p \in used
            /\ matched.path = p =>
                  /\ p \in used
                  /\ Decodable(matched.file) => Cached(p)
                  /\ Cached(p) => matched.ref = ref_cache[p]
                  /\ ~Cached(p) => matched.ref = NoBitmap /\ ~Decodable(matched.file)
                                   /\ reads[p] >= 1)
    /\ [][\A p \in Paths :
            Cached(p) => /\ ref_cache'[p] = ref_cache[p]
                         /\ reads'[p] = reads[p]
                         /\ decodes'[p] = decodes[p]]_vars

(* small.png was decoded, then changed on disk, and the latest call still
   matched the first picture; corrupt.png was read by each of its calls *)
C20_Witness ==
    /\ ref_cache["small.png"] = Bitmap(5, 2)
    /\ disk["small.png"] = BigImage
    /\ matched = LastMatch("small.png", BigImage, Bitmap(5, 2))
    /\ decodes["small.png"] = 1
    /\ reads["small.png"] = 1
    /\ "corrupt.png" \in used
    /\ reads["corrupt.png"] = MaxReads
    /\ decodes["corrupt.png"] = 0

----------------------------------------------------------------------------
(* The img_check thread t is executing *)
ImgAction(t) == actions[idx[t]]

(* The reference file exists and the latest capture was comparable with a
   score that reaches the threshold *)
PositiveMatch(t) ==
    /\ disk[ImgAction(t).image].exists
    /\ top_left[t] # <<>>
    /\ score[t] >= ImgConfig(ImgAction(t).cfg).threshold

InSubActions(t) == pc[t] = "sub_head" \/ (pc[t] = "sleep" /\ ret[t] = "sub")

NotFoundStatus == Status("Image not found, continuing main flow", 0)
SkippedStatus == Status("Image check skipped: file not found", 0)

(* C21: an img_check goes into its sub-actions if and only if the file
   exists, the run is not cancelled and the latest match was comparable with
   score >= threshold; a negative decision of a run that is not cancelled
   emits the not-found status, makes no input and hands over to the next
   top-level action; a missing reference file gives the skip status with no
   call of match_template. *)
C21_BranchDecision ==
    /\ [](\A t \in Threads : InSubActions(t) => PositiveMatch(t))
    /\ [][\A t \in Threads :
            /\ (pc[t] = "img_decide" /\ pc'[t] # "img_decide") =>
                  /\ pc'[t] = "sub_head" <=> (running /\ PositiveMatch(t))
                  /\ pc'[t] = "sub_head" =>
                        /\ sub_i'[t] = 1
                        /\ log'[t] = Append(log[t], Status("Image found, executing sub-actions",
                                                           Len(ImgAction(t).subs)))
                  /\ pc'[t] # "sub_head" =>
                        /\ pc'[t] = "act_head" /\ idx'[t] = idx[t] + 1 /\ exc'[t] = ""
                        /\ inputs'[t] = inputs[t]
                        /\ log'[t] = IF running THEN Append(log[t], NotFoundStatus) ELSE log[t]
            /\ (pc[t] = "exec" /\ pc'[t] # "exec" /\ ImgAction(t).typ = "img_check"
                   /\ ~ImgAction(t).short /\ ~disk[ImgAction(t).image].exists) =>
                  /\ pc'[t] = "act_head" /\ idx'[t] = idx[t] + 1 /\ exc'[t] = ""
                  /\ log'[t] = Append(log[t], SkippedStatus)
                  /\ inputs'[t] = inputs[t]
                  /\ <<ref_cache, used, reads, matched>>' = <<ref_cache, used, reads, matched>>
            /\ suborder'[t] \notin {suborder[t], <<>>} => pc[t] = "sub_head"]_vars

(* A comparable capture below the threshold: no sub-action, the status, and
   the click that follows the img_check is made *)
C21_Witness ==
    /\ Ended(1)
    /\ Len(actions) = 2 /\ actions[1].typ = "img_check" /\ actions[1].subs = <<Click>>
    /\ loop_count = 1
    /\ top_left[1] # <<>> /\ score[1] = 50
    /\ \E k \in 1 .. Len(log[1]) : log[1][k] = NotFoundStatus
    /\ Last(log[1]) = Done(TRUE)
    /\ inputs[1] = <<Call("click", <<>>)>>

----------------------------------------------------------------------------
(* The regions of the img_check actions of the model *)
SampleRegions == { Region(<<0, 0, 10, 10>>), Region(<<30, 5, 10, 25>>), Region(<<-10, 0, -30, 10>>) }

(* The picture match_template would work with cannot be laid over the region *)
Incomparable(p, region) ==
    \/ RefGray(p) = NoBitmap
    \/ RefGray(p).h > region.height
    \/ RefGray(p).w > region.width

WaitingImg(t) == pc[t] = "img_wait" /\ running

(* C22: match_template answers (False, 0.0, None, ...) whenever the pictures
   cannot be compared - reference larger than the region (then with the
   reference's width and height), unreadable file, failed matching; a wait
   loop leaves after the one capture that could not be compared, whatever
   the timeout, without sleeping and without an exception, and the decision
   is not-found.  A path that cannot be decoded is read once per dispatch
   of its img_check. *)
C22_IncomparableEndsWait ==
    /\ [](/\ \A p \in Paths, region \in SampleRegions, cap \in Captures :
                LET m == MatchTemplate(p, region, cap)
                IN  /\ (Incomparable(p, region) \/ cap.fails) <=> ~m.ok
                    /\ ~m.ok => m.score = 0 /\ m.top_left = <<>>
                    /\ (RefGray(p) # NoBitmap /\ Incomparable(p, region)) =>
                          m.w = RefGray(p).w /\ m.h = RefGray(p).h
          /\ calls[1] = 0 => reads["corrupt.png"] <= dispatched[1])
    /\ [][\A t \in Threads :
            /\ (pc[t] = "exec" /\ pc'[t] = "img_wait") =>
                  <<used, reads, matched>>' = <<used, reads, matched>>
            /\ (WaitingImg(t) /\ pc'[t] # "img_wait"
                   /\ Incomparable(ImgAction(t).image, Region(ImgAction(t).coords))) =>
                  top_left'[t] = <<>>
            /\ (WaitingImg(t) /\ pc'[t] # "img_wait" /\ top_left'[t] = <<>>) =>
                  /\ pc'[t] = "img_decide"
                  /\ ~image_found'[t] /\ score'[t] = 0
                  /\ exc'[t] = "" /\ log'[t] = log[t]
                  /\ matched'.path = ImgAction(t).image
            /\ (pc[t] = "img_decide" /\ pc'[t] # "img_decide" /\ top_left[t] = <<>>) =>
                  /\ pc'[t] = "act_head"
                  /\ log'[t] = IF running THEN Append(log[t], NotFoundStatus) ELSE log[t]]_vars

(* A wait without timeout on a file that cannot be decoded: one read, the
   not-found status and a completed run *)
C22_Witness ==
    /\ Ended(1) /\ calls[1] = 1
    /\ Len(actions) = 2 /\ actions[1].typ = "img_check" /\ actions[1].image = "corrupt.png"
    /\ ImgConfig(actions[1].cfg).wait /\ ImgConfig(actions[1].cfg).timeout = 0
    /\ loop_count = 1
    /\ reads["corrupt.png"] = 1
    /\ \E k \in 1 .. Len(log[1]) : log[1][k] = NotFoundStatus
    /\ Last(log[1]) = Done(TRUE)

----------------------------------------------------------------------------
(* Thread t is inside the wait loop of an img_check, lines 467-477 *)
InWaitLoop(at, from) == at = "img_wait" \/ (at = "sleep" /\ from = "img")

(* The first stop() of the current call found t inside a wait loop *)
StoppedInWait(t) == stopIn[t] = "flight" /\ InWaitLoop(stopPt[t].pc, stopPt[t].ret)

FoundOrNot(e) ==
    e.k = "status" /\ e.m \in {"Image found, executing sub-actions",
                               "Image not found, continuing main flow"}

(* C23: after a stop() that arrives while an img_check is waiting, the call
   emits neither the found nor the not-found status, makes no input, takes
   up no sub-action, dispatches no further action and ends with done(false);
   a wait without timeout leaves its loop only on a match, on a capture that
   cannot be compared, or with the flag cleared. *)
C23_StopWhileWaiting ==
    /\ [](\A t \in Threads :
            StoppedInWait(t) =>
               /\ dispatched[t] = dispAtStop[t]
               /\ Len(inputs[t]) = stopPt[t].inputs
               /\ \A k \in stopPt[t].log + 1 .. Len(log[t]) : ~FoundOrNot(log[t][k])
               /\ ~InSubActions(t)
               /\ pc[t] \notin {"exec", "except"}
               /\ Ended(t) => Last(log[t]) = Done(FALSE))
    /\ [][\A t \in Threads :
            (InWaitLoop(pc[t], ret[t]) /\ pc'[t] = "img_decide"
                /\ ImgConfig(ImgAction(t).cfg).timeout = 0) =>
               \/ ~running
               \/ top_left'[t] = <<>>
               \/ score'[t] >= ImgConfig(ImgAction(t).cfg).threshold]_vars

(* stop() during the polling sleep of a wait without timeout, after a
   comparable capture below the threshold; the call has returned *)
C23_Witness ==
    /\ Ended(1)
    /\ StoppedInWait(1) /\ stopPt[1].pc = "sleep"
    /\ actions[1].typ = "img_check" /\ ImgConfig(actions[1].cfg).timeout = 0
    /\ top_left[1] # <<>> /\ score[1] = 50
    /\ inputs[1] = <<>>
    /\ Last(log[1]) = Done(FALSE)

----------------------------------------------------------------------------
(* Thread t is about to take up the sub-action at sub_i *)
TakesSub(t) ==
    pc[t] = "sub_head" /\ running /\ sub_i[t] <= Len(ImgAction(t).subs)

ThisSub(t) == ImgAction(t).subs[sub_i[t]]

IsError(e) == e.k = "error"

(* C24: a sub-action of a supported tag that raises makes no input and
   emits nothing, and the loop goes on with the next sub-action; a tag
   outside the set only gives the status "Unknown sub-action type"; no step
   of the sub-action loop raises, the sub-actions are taken up in list
   order, and a run whose top-level actions do not raise (no malformed
   action, no OCR) never invokes the error callback. *)
C24_LenientSubActions ==
    /\ [](\A t \in Threads :
            /\ \A k \in 1 .. Len(suborder[t]) : suborder[t][k] = k
            /\ InSubActions(t) => exc[t] = "" /\ Len(suborder[t]) \in {sub_i[t] - 1, sub_i[t]}
            /\ (\A k \in 1 .. Len(actions) : ~Raises(actions[k]) /\ actions[k].typ # "ocr") =>
                  /\ \A k \in 1 .. Len(log[t]) : ~IsError(log[t][k])
                  /\ pc[t] # "except")
    /\ [][\A t \in Threads :
            (TakesSub(t) /\ suborder'[t] # suborder[t]) =>
               /\ suborder'[t] = Append(suborder[t], sub_i[t])
               /\ exc'[t] = "" /\ pc'[t] \in {"sub_head", "sleep"}
               /\ (ThisSub(t).typ \in SubTags /\ ThisSub(t).bad) =>
                     /\ inputs'[t] = inputs[t] /\ log'[t] = log[t]
                     /\ pc'[t] = "sub_head" /\ sub_i'[t] = sub_i[t] + 1
               /\ ThisSub(t).typ \in SubTags => log'[t] = log[t]
               /\ ThisSub(t).typ \notin SubTags =>
                     /\ inputs'[t] = inputs[t]
                     /\ log'[t] = Append(log[t], Status("Unknown sub-action type", 0))
                     /\ pc'[t] = "sub_head" /\ sub_i'[t] = sub_i[t] + 1]_vars

(* Five failing sub-actions, one of each tag but click, then a click: all six
   were taken up, the click of the list and the click after the img_check
   were made, and the run completed *)
C24_Witness ==
    /\ Ended(1)
    /\ actions = <<Img(FALSE, FALSE, "small.png", <<0, 0, 10, 10>>, RaisingSubs, BareCfg(80)), Click>>
    /\ loop_count = 1
    /\ suborder[1] = <<1, 2, 3, 4, 5, 6>>
    /\ inputs[1] = <<Call("click", <<>>), Call("click", <<>>)>>
    /\ \A k \in 1 .. Len(log[1]) : ~IsError(log[1][k])
    /\ Last(log[1]) = Done(TRUE)

----------------------------------------------------------------------------
UnknownStatus == Status("Unknown action type", 0)

(* The tags _execute_action has no branch for *)
Undispatched(a) ==
    a.typ \notin {"click", "drag", "delay", "copy", "paste", "hotkey", "key", "ocr", "img_check"}

Occurrences(s, e) == Cardinality({ k \in 1 .. Len(s) : s[k] = e })

(* C25: dispatching an action whose tag has no branch emits the status
   "Unknown action type" and nothing else, makes no input, leaves the
   clipboard alone, raises nothing and hands over to the next action; it was
   counted as a dispatch; a run over such actions that is not cancelled ends
   with done(true), one status for each of them in each iteration. *)
C25_UnknownTagIsSoft ==
    /\ [](\A t \in Threads :
            /\ (pc[t] = "exec" /\ Undispatched(ImgAction(t))) =>
                  dispatched[t] >= 1 /\ Last(order[t]) = idx[t]
            /\ Succeeded(t) =>
                  Occurrences(log[t], UnknownStatus) =
                     loop_count * Cardinality({ k \in 1 .. Len(actions) : Undispatched(actions[k]) })
            /\ (Ended(t) /\ stopIn[t] = "none" /\ ~Rejected(t)
                   /\ \A k \in 1 .. Len(actions) : Undispatched(actions[k]) \/ actions[k] = Click) =>
                  Succeeded(t))
    /\ [][\A t \in Threads :
            (pc[t] = "exec" /\ pc'[t] # "exec" /\ Undispatched(ImgAction(t))) =>
               /\ log'[t] = Append(log[t], UnknownStatus)
               /\ inputs'[t] = inputs[t]
               /\ clipboard' = clipboard
               /\ dispatched'[t] = dispatched[t]
               /\ exc'[t] = ""
               /\ pc'[t] = "act_head" /\ idx'[t] = idx[t] + 1]_vars

(* wait_key followed by a click, twice over: two statuses, two clicks and
   done(true) *)
C25_Witness ==
    /\ Succeeded(1)
    /\ actions = <<Act("wait_key", FALSE, 0), Click>>
    /\ loop_count = 2
    /\ dispatched[1] = 4
    /\ Occurrences(log[1], UnknownStatus) = 2
    /\ inputs[1] = <<Call("click", <<>>), Call("click", <<>>)>>

----------------------------------------------------------------------------
(* Thread t is about to make a capture of its wait loop that is not the
   first one: the capture before it could be compared, the sleep after it
   has returned and the flag is set *)
LaterCapture(t) == pc[t] = "img_wait" /\ running /\ top_left[t] # <<>>

PollInterval(t) == ImgConfig(ImgAction(t).cfg).interval

(* The statement of C26 as it stands: the sleep between two captures is
   max(0.05, interval) *)
C26_Original ==
    \A t \in Threads :
        LaterCapture(t) =>
           /\ want[t] = Max(50, PollInterval(t))
           /\ slept[t] >= 50

(* C26, amended: between two captures of a wait loop the engine sleeps
   max(0.01, interval) seconds, the whole of it, so two captures are at least
   10 ms apart, for every interval including 0 and negative ones. *)
C26_PollingFloor ==
    \A t \in Threads :
        LaterCapture(t) =>
           /\ want[t] = Max(10, PollInterval(t))
           /\ slept[t] = want[t]
           /\ slept[t] >= 10

(* A wait with a negative interval about to capture again after 10 ms *)
C26_Witness ==
    /\ pc[1] = "img_wait" /\ running
    /\ top_left[1] # <<>>
    /\ PollInterval(1) < 0
    /\ want[1] = 10 /\ slept[1] = 10
    /\ elapsed[1] = 10

----------------------------------------------------------------------------
(* Thread t is in _execute_ocr and leaves it with this step *)
OcrStep(t) == pc[t] = "exec" /\ ImgAction(t).typ = "ocr" /\ pc'[t] # "exec"

(* The elements of a list with one blank between neighbours *)
RECURSIVE Joined(_)
Joined(l) ==
    IF Len(l) = 1 THEN l[1]
    ELSE Joined(SubSeq(l, 1, Len(l) - 1)) \o <<" ">> \o l[Len(l)]

NoMatchesStatus == Status("OCR: No matches found for mode", 0)

(* C27: an OCR action that does not raise emits exactly one status and hands
   over to the next action; without a result it is the no-matches status
   and the clipboard is unchanged; with a result, copy and first put the
   first element of a list (or the string) on the clipboard, all the
   elements joined by blanks (or the string), and show and every other
   processing value leave the clipboard unchanged.  An OCR action that
   raises leaves the clipboard unchanged. *)
C27_OcrResultHandling ==
    [][\A t \in Threads :
          OcrStep(t) =>
             LET r == extracted'[t].result
                 p == IF ImgAction(t).short THEN "copy" ELSE ImgAction(t).processing
             IN  /\ inputs'[t] = inputs[t]
                 /\ exc'[t] # "" => clipboard' = clipboard /\ pc'[t] = "except" /\ log'[t] = log[t]
                 /\ exc'[t] = "" =>
                       /\ pc'[t] = "act_head" /\ idx'[t] = idx[t] + 1
                       /\ Len(log'[t]) = Len(log[t]) + 1
                       /\ Last(log'[t]).k = "status"
                       /\ (r.kind = "none" \/ r.v = <<>>) =>
                             clipboard' = clipboard /\ Last(log'[t]) = NoMatchesStatus
                       /\ (r.kind = "str" /\ r.v # <<>> /\ p \in {"copy", "first", "all"}) =>
                             clipboard' = r.v
                       /\ (r.kind = "list" /\ r.v # <<>> /\ p \in {"copy", "first"}) =>
                             clipboard' = r.v[1]
                       /\ (r.kind = "list" /\ r.v # <<>> /\ p = "all") =>
                             clipboard' = Joined(r.v)
                       /\ p \notin {"copy", "first", "all"} =>
                             /\ clipboard' = clipboard
                             /\ (r.kind # "none" /\ r.v # <<>>) => Last(log'[t]) # NoMatchesStatus]_vars

(* An unrecognised processing value with two numbers extracted: the status,
   an untouched clipboard, the click after it, done(true) *)
C27_Witness ==
    /\ Succeeded(1)
    /\ actions = <<Ocr(FALSE, FALSE, "numbers", "", "preview"), Click>>
    /\ extracted[1].result = ListResult(<<<<"1">>, <<"2", "2">>>>)
    /\ Has(log[1], Status("OCR (mode=processing)", 0))
    /\ clipboard = <<>>
    /\ inputs[1] # <<>>

----------------------------------------------------------------------------
(* The call of t went past the guards, dispatched every action of every
   iteration, none of them raised, and it has returned *)
AllDispatched(t) ==
    /\ RanAndEnded(t)
    /\ dispatched[t] = Len(actions) * loop_count
    /\ exc[t] = ""

(* The statement of C28 as it stands: such a call ends with the completion
   status and done(true) whenever stop() arrives *)
C28_Original ==
    \A t \in Threads :
        AllDispatched(t) => Succeeded(t) /\ Has(log[t], Completed)

(* C28, amended: a call that dispatched all N * len(actions) actions with
   none raising ends with the completion status and done(true) if and only
   if no stop() cleared the flag before the test at line 164; a stop() during
   the last action or between its return and that test gives done(false)
   without the completion status, a stop() after the test changes nothing. *)
C28_CompletionNeedsFlag ==
    \A t \in Threads :
        AllDispatched(t) =>
           /\ Succeeded(t) <=> (stopIn[t] = "none" \/ stopPt[t].pc = "finally")
           /\ Succeeded(t) => Has(log[t], Completed)
           /\ ~Succeeded(t) => Last(log[t]) = Done(FALSE) /\ ~Has(log[t], Completed)

(* Two clicks made, then a stop() right before the test of the flag *)
C28_Witness ==
    /\ AllDispatched(1)
    /\ actions = <<Click, Click>>
    /\ loop_count = 1
    /\ inputs[1] = <<Call("click", <<>>), Call("click", <<>>)>>
    /\ stopPt[1].pc = "chk_complete"
    /\ Last(log[1]) = Done(FALSE)
    /\ ~Has(log[1], Completed)


----------------------------------------------------------------------------
(* C29: in the window at most one executor run is in progress at any time:
   start_macro never starts a new executor thread while the run() of an
   executor started before has not returned.  As stated this is violated:
   stop_macro clears macro_running at once, whether or not the worker has
   left run(), so the next start_macro passes the macro_running test and
   starts a second thread beside the first. *)
C29_Original ==
    \A e, f \in Executors : WorkerInRun(e) /\ WorkerInRun(f) => e = f

----------------------------------------------------------------------------
(* C30: whenever an executor started by start_macro still has its flag set,
   macro_running is true and self.executor refers to that executor, so that
   stop_macro delivers stop() to it; the done callback of an earlier
   executor does not reset macro_running or self.executor of a newer run.
   As stated this is violated: a stop_macro that comes before the worker
   has set the flag clears macro_running and calls no stop(), and
   _on_macro_done clears macro_running and self.executor whichever executor
   the callback came from. *)
C30_Original ==
    \A e \in Executors : ex_running[e] => macro_running /\ executor = e

====
